---- MODULE Spec2Model ----
(***************************************************************************)
(* Model of the compiler-construction core of dazhuan-assignments:         *)
(* comp/lexer.rs (preprocess, lex) and comp/parser.rs (parse).             *)
(*                                                                         *)
(* A character is a one-character string; a Rust String is a sequence of   *)
(* characters.                                                             *)
(***************************************************************************)
EXTENDS Integers, Sequences, FiniteSets, TLC

VARIABLES
    source,         \* preprocess: the characters taken from source.chars() so far
    row,            \* preprocess: let mut row
    col,            \* preprocess: let mut col
    spaced,         \* preprocess: let mut spaced
    comment_state,  \* preprocess: let mut comment_state
    preprocessed,   \* preprocess: let mut preprocessed
    pre_result,     \* preprocess: the value returned ("Running" before the return)
    stage,          \* LexerSolver::solve: the call it is about to make
    lex_iter,       \* lex: what the iterator preprocessed.into_iter() has left
    pc,             \* lex: let mut pc
    keep_char,      \* lex: let mut keep_char
    state,          \* lex: let mut state
    tokens,         \* lex: let mut tokens
    current_token_row,  \* lex: let mut current_token_row
    current_token_col,  \* lex: let mut current_token_col
    current_token_raw,  \* lex: let mut current_token_raw
    lex_result,     \* lex: the value returned ("Running" before the return)
    stack,          \* parse: let mut stack (the top is the last element)
    parse_input,    \* parse: let mut input (reversed: the next token is the last)
    trace,          \* parse: let mut trace
    parse_result,   \* parse: the error returned, or Ok ("Running" before the return)
    numbers,        \* inv: numbers
    inv_i,          \* inv: i of the outer loop
    inv_j,          \* inv: j of the inner loop
    ans,            \* inv: let mut ans
    inv_result      \* inv: the value returned ("Running" before the return)

pre_vars == <<row, col, spaced, comment_state, preprocessed>>

lex_vars == <<lex_iter, pc, keep_char, state, tokens,
              current_token_row, current_token_col, current_token_raw, lex_result>>

parse_vars == <<stack, parse_input, trace, parse_result>>

inv_vars == <<numbers, inv_i, inv_j, ans, inv_result>>

vars == <<source, pre_vars, pre_result, stage, lex_vars, parse_vars, inv_vars>>

-----------------------------------------------------------------------------
(* Bounds of the model.                                                    *)

\* Longest source text fed to the preprocessor character by character.
MaxLen == 6

\* The characters the preprocessor tells apart: slash, asterisk, newline,
\* space, and one ordinary character.
PreChars == {"/", "*", "\n", " ", "a"}

\* Longest comment body of the sources "x/*body*/y" given to the solver.
MaxBody == 2

\* Longest text following a keyword in the sources given to the solver.
MaxTail == 2

\* Longest text of digits, letters, spaces and operators given to the solver.
MaxGen == 4

\* Most words (tokens to be) in the sources given to the parser's solver:
\* of the sources made of terminals of the grammar, and of the sources that
\* may hold other tokens too.
MaxTokens == 5

MaxBad == 3

\* Longest slice given to inv, and the largest number in it.
MaxNums == 4

MaxVal == 3

-----------------------------------------------------------------------------
(* preprocess                                                              *)

PositionedChar(c, r, cl) == [c |-> c, row |-> r, col |-> cl]

\* The payload of the CommentState variants that carry none.
NoSlash == PositionedChar("/", 0, 0)

CommentState(tag) == [tag |-> tag, slash |-> NoSlash]

EnteringInlineOrBlock(slash) == [tag |-> "EnteringInlineOrBlock", slash |-> slash]

\* The locals of preprocess as one record.
PreLocals(r, cl, sp, cs, pp) ==
    [row |-> r, col |-> cl, spaced |-> sp, comment_state |-> cs, preprocessed |-> pp]

PreStart == PreLocals(1, 1, TRUE, CommentState("None"), <<>>)

\* if !spaced { preprocessed.push(' ' at r:cl); spaced = true; }
PushSpace(st, r, cl) ==
    IF ~st.spaced
    THEN [st EXCEPT !.preprocessed = Append(@, PositionedChar(" ", r, cl)),
                    !.spaced = TRUE]
    ELSE st

\* The second match of the loop body: a character outside any comment.
Emit(st, c) ==
    CASE c = "\n" -> [PushSpace(st, st.row, st.col) EXCEPT !.row = @ + 1, !.col = 1]
      [] c = " "  -> [PushSpace(st, st.row, st.col) EXCEPT !.col = @ + 1]
      [] OTHER    -> [st EXCEPT !.preprocessed = Append(@, PositionedChar(c, st.row, st.col)),
                                !.spaced = FALSE,
                                !.col = @ + 1]

\* A preprocessor that knows inline comments only: "/*" is ordinary text.
StepEnteringNoBlock(st, c) ==
    LET slash == st.comment_state.slash IN
    IF c = "/"
    THEN [PushSpace(st, slash.row, slash.col)
             EXCEPT !.comment_state = CommentState("Inline"), !.col = @ + 1]
    ELSE Emit([st EXCEPT !.comment_state = CommentState("None"),
                         !.preprocessed = Append(@, slash),
                         !.spaced = FALSE], c)

\* An inline comment in which '*' opens a block comment.
StepInlineStarOpensBlock(st, c) ==
    CASE c = "\n" -> [st EXCEPT !.comment_state = CommentState("None"), !.row = @ + 1, !.col = 1]
      [] c = "*"  -> [st EXCEPT !.comment_state = CommentState("Block")]
      [] OTHER    -> st

\* A block comment body in which a newline is counted as one more column.
StepBlockNoNewline(st, c) ==
    IF c = "*"
    THEN [st EXCEPT !.comment_state = CommentState("LeavingBlock"), !.col = @ + 1]
    ELSE [st EXCEPT !.col = @ + 1]

\* After a '*' in a block comment, a newline is counted as one more column.
StepLeavingBlockNoNewline(st, c) ==
    IF c = "/"
    THEN [st EXCEPT !.comment_state = CommentState("None"), !.col = @ + 1]
    ELSE [st EXCEPT !.comment_state = CommentState("Block"), !.col = @ + 1]

StepNone(st, c) ==
    IF c = "/"
    THEN [st EXCEPT !.comment_state = EnteringInlineOrBlock(PositionedChar(c, st.row, st.col)),
                    !.col = @ + 1]
    ELSE Emit(st, c)

StepEnteringInlineOrBlock(st, c) ==
    LET slash == st.comment_state.slash IN
    CASE c = "/" -> [PushSpace(st, slash.row, slash.col)
                        EXCEPT !.comment_state = CommentState("Inline"), !.col = @ + 1]
      [] c = "*" -> [PushSpace(st, slash.row, slash.col)
                        EXCEPT !.comment_state = CommentState("Block"), !.col = @ + 1]
      [] OTHER   -> Emit([st EXCEPT !.comment_state = CommentState("None"),
                                    !.preprocessed = Append(@, slash),
                                    !.spaced = FALSE], c)

StepInline(st, c) ==
    IF c = "\n"
    THEN [st EXCEPT !.comment_state = CommentState("None"), !.row = @ + 1, !.col = 1]
    ELSE st

StepBlock(st, c) ==
    CASE c = "*"  -> [st EXCEPT !.comment_state = CommentState("LeavingBlock"), !.col = @ + 1]
      [] c = "\n" -> [st EXCEPT !.row = @ + 1, !.col = 1]
      [] OTHER    -> [st EXCEPT !.col = @ + 1]

StepLeavingBlock(st, c) ==
    CASE c = "/"  -> [st EXCEPT !.comment_state = CommentState("None"), !.col = @ + 1]
      [] c = "\n" -> [st EXCEPT !.comment_state = CommentState("Block"),
                                !.row = @ + 1, !.col = 1]
      [] OTHER    -> [st EXCEPT !.comment_state = CommentState("Block"), !.col = @ + 1]

\* One iteration of `for c in source.chars()`.
PreStep(st, c) ==
    CASE st.comment_state.tag = "None"                  -> StepNone(st, c)
      [] st.comment_state.tag = "EnteringInlineOrBlock" -> StepEnteringInlineOrBlock(st, c)
      [] st.comment_state.tag = "Inline"                -> StepInline(st, c)
      [] st.comment_state.tag = "Block"                 -> StepBlock(st, c)
      [] st.comment_state.tag = "LeavingBlock"          -> StepLeavingBlock(st, c)

PreOk(out) == [tag |-> "Ok", out |-> out, row |-> 0, col |-> 0]

EofWhileBlockComment(r, cl) ==
    [tag |-> "EofWhileBlockComment", out |-> <<>>, row |-> r, col |-> cl]

PreRunning == [tag |-> "Running", out |-> <<>>, row |-> 0, col |-> 0]

\* if let Some(PositionedChar { c: ' ', .. }) = preprocessed.last() { preprocessed.pop(); }
TrimLast(pp) ==
    IF Len(pp) > 0 /\ pp[Len(pp)].c = " " THEN SubSeq(pp, 1, Len(pp) - 1) ELSE pp

\* The code after the loop, without the trim of the trailing space.
PreFinishNoTrim(st) ==
    IF st.comment_state.tag = "Block"
    THEN EofWhileBlockComment(st.row, st.col)
    ELSE PreOk(st.preprocessed)

\* The code after the loop.
PreFinish(st) ==
    IF st.comment_state.tag = "Block"
    THEN EofWhileBlockComment(st.row, st.col)
    ELSE PreOk(TrimLast(st.preprocessed))

RECURSIVE PreFold(_, _, _)
PreFold(st, src, i) ==
    IF i > Len(src) THEN st ELSE PreFold(PreStep(st, src[i]), src, i + 1)

\* preprocess as a function of the whole source.
Preprocess(src) == PreFinish(PreFold(PreStart, src, 1))

-----------------------------------------------------------------------------
(* lex                                                                     *)

Lower == {"a", "b", "c", "d", "e", "f", "g", "h", "i", "j", "k", "l", "m",
          "n", "o", "p", "q", "r", "s", "t", "u", "v", "w", "x", "y", "z"}

Upper == {"A", "B", "C", "D", "E", "F", "G", "H", "I", "J", "K", "L", "M",
          "N", "O", "P", "Q", "R", "S", "T", "U", "V", "W", "X", "Y", "Z"}

\* '1'..='9'
NonZeroDigit == {"1", "2", "3", "4", "5", "6", "7", "8", "9"}

\* '0'..='9'
Digit == {"0"} \cup NonZeroDigit

\* '_' | 'a'..='z' | 'A'..='Z'
IdentStart == {"_"} \cup Lower \cup Upper

\* '_' | 'a'..='z' | 'A'..='Z' | '0'..='9'
IdentChar == IdentStart \cup Digit

\* TokenValue: variant names the Sym, Kw or Op; text holds an Ident's name or
\* a LiteralInt's value.
Ident(name) == [kind |-> "Ident", variant |-> "", text |-> name]
Sym(v) == [kind |-> "Sym", variant |-> v, text |-> <<>>]
Kw(v) == [kind |-> "Kw", variant |-> v, text |-> <<>>]
Op(v) == [kind |-> "Op", variant |-> v, text |-> <<>>]
LiteralInt(value) == [kind |-> "LiteralInt", variant |-> "", text |-> value]

Token(tv, r, cl, raw) == [token |-> tv, row |-> r, col |-> cl, raw |-> raw]

LexRunning == [tag |-> "Running", tokens |-> <<>>, c |-> "", row |-> 0, col |-> 0]

LexOk(toks) == [tag |-> "Ok", tokens |-> toks, c |-> "", row |-> 0, col |-> 0]

UnexpectedChar(c, r, cl) ==
    [tag |-> "UnexpectedChar", tokens |-> <<>>, c |-> c, row |-> r, col |-> cl]

\* The value of pc before the first preprocessed.next().
NoChar == PositionedChar("", 0, 0)

\* The locals of lex as one record.
LexLocals(it, p, kc, s, toks, r, cl, raw, res) ==
    [iter |-> it, pc |-> p, keep_char |-> kc, state |-> s, tokens |-> toks,
     current_token_row |-> r, current_token_col |-> cl, current_token_raw |-> raw,
     result |-> res]

LexIdle == LexLocals(<<>>, NoChar, FALSE, "Start", <<>>, 0, 0, <<>>, LexRunning)

\* lex up to the loop.
LexBegin(input) ==
    IF input = <<>>
    THEN [LexIdle EXCEPT !.result = LexOk(<<>>)]
    ELSE LexLocals(Tail(input), Head(input), TRUE, "Start", <<>>, 0, 0, <<>>, LexRunning)

\* tokens.push(Token { token, row: current_token_row, col: current_token_col,
\*                     raw: current_token_raw.clone() })
PushToken(st, tv) ==
    [st EXCEPT !.tokens = Append(@, Token(tv, st.current_token_row,
                                          st.current_token_col, st.current_token_raw))]

\* A lexer whose error carries the position of the start of the current token.
FailAtTokenStart(st) ==
    [st EXCEPT !.result = UnexpectedChar(st.pc.c, st.current_token_row, st.current_token_col)]

\* Err(LexError::UnexpectedChar { c, row: pc.row, col: pc.col })?
Fail(st) == [st EXCEPT !.result = UnexpectedChar(st.pc.c, st.pc.row, st.pc.col)]

\* The state a letter or underscore leads to from Start.
IdentOrKwStart(c) ==
    CASE c = "i" -> "IdentOrKwIfOrInt1"
      [] c = "f" -> "IdentOrKwFor1"
      [] c = "w" -> "IdentOrKwWhile1"
      [] c = "d" -> "IdentOrKwDo1"
      [] c = "r" -> "IdentOrKwReturn1"
      [] c = "b" -> "IdentOrKwBreak1"
      [] c = "c" -> "IdentOrKwContinue1"
      [] OTHER   -> "Ident_"

\* The tokens of one character that Start pushes at once.
SingleCharToken(c) ==
    CASE c = "(" -> Sym("LeftParen")
      [] c = ")" -> Sym("RightParen")
      [] c = "[" -> Sym("LeftBracket")
      [] c = "]" -> Sym("RightBracket")
      [] c = "{" -> Sym("LeftBrace")
      [] c = "}" -> Sym("RightBrace")
      [] c = "," -> Sym("Comma")
      [] c = ";" -> Sym("Semicolon")
      [] c = "+" -> Op("Add")
      [] c = "-" -> Op("Sub")
      [] c = "*" -> Op("Mul")
      [] c = "/" -> Op("Div")
      [] c = "%" -> Op("Mod")

SingleChar == {"(", ")", "[", "]", "{", "}", ",", ";", "+", "-", "*", "/", "%"}

\* The arm Start of the automaton.
AutoStart(st) ==
    LET c == st.pc.c
        t == [st EXCEPT !.current_token_row = st.pc.row,
                        !.current_token_col = st.pc.col,
                        !.current_token_raw = <<c>>]
    IN IF c = " " THEN st
       ELSE CASE c = "0"             -> [t EXCEPT !.state = "LiteralZero"]
              [] c \in NonZeroDigit  -> [t EXCEPT !.state = "LiteralInt"]
              [] c \in IdentStart    -> [t EXCEPT !.state = IdentOrKwStart(c)]
              [] c \in SingleChar    -> [PushToken(t, SingleCharToken(c)) EXCEPT !.state = "Start"]
              [] c = "="             -> [t EXCEPT !.state = "OpAssignOrEq"]
              [] c = ">"             -> [t EXCEPT !.state = "OpGtOrGe"]
              [] c = "<"             -> [t EXCEPT !.state = "OpLtOrLe"]
              [] c = "!"             -> [t EXCEPT !.state = "OpNotOrNe"]
              [] OTHER               -> Fail(t)

\* The arms of the keyword chains that continue a keyword: <<state, c, next>>.
KwEdges ==
    { <<"IdentOrKwIfOrInt1", "f", "IdentOrKwIf2">>,
      <<"IdentOrKwIfOrInt1", "n", "IdentOrKwInt2">>,
      <<"IdentOrKwInt2", "t", "IdentOrKwInt3">>,
      <<"IdentOrKwFor1", "o", "IdentOrKwFor2">>,
      <<"IdentOrKwFor2", "r", "IdentOrKwFor3">>,
      <<"IdentOrKwWhile1", "h", "IdentOrKwWhile2">>,
      <<"IdentOrKwWhile2", "i", "IdentOrKwWhile3">>,
      <<"IdentOrKwWhile3", "l", "IdentOrKwWhile4">>,
      <<"IdentOrKwWhile4", "e", "IdentOrKwWhile5">>,
      <<"IdentOrKwDo1", "o", "IdentOrKwDo2">>,
      <<"IdentOrKwReturn1", "e", "IdentOrKwReturn2">>,
      <<"IdentOrKwReturn2", "t", "IdentOrKwReturn3">>,
      <<"IdentOrKwReturn3", "u", "IdentOrKwReturn4">>,
      <<"IdentOrKwReturn4", "r", "IdentOrKwReturn5">>,
      <<"IdentOrKwReturn5", "n", "IdentOrKwReturn6">>,
      <<"IdentOrKwBreak1", "r", "IdentOrKwBreak2">>,
      <<"IdentOrKwBreak2", "e", "IdentOrKwBreak3">>,
      <<"IdentOrKwBreak3", "a", "IdentOrKwBreak4">>,
      <<"IdentOrKwBreak4", "k", "IdentOrKwBreak5">>,
      <<"IdentOrKwContinue1", "o", "IdentOrKwContinue2">>,
      <<"IdentOrKwContinue2", "n", "IdentOrKwContinue3">>,
      <<"IdentOrKwContinue3", "t", "IdentOrKwContinue4">>,
      <<"IdentOrKwContinue4", "i", "IdentOrKwContinue5">>,
      <<"IdentOrKwContinue5", "n", "IdentOrKwContinue6">>,
      <<"IdentOrKwContinue6", "u", "IdentOrKwContinue7">>,
      <<"IdentOrKwContinue7", "e", "IdentOrKwContinue8">> }

\* The states Ident_ and IdentOrKw*.
IdentStates == {"Ident_", "IdentOrKwIfOrInt1"} \cup {e[3] : e \in KwEdges}
                 \cup {IdentOrKwStart(c) : c \in Lower}

\* The state the keyword arm of state s for character c leads to, "" when s
\* has no such arm.
KwEdge(s, c) ==
    IF \E e \in KwEdges : e[1] = s /\ e[2] = c
    THEN (CHOOSE e \in KwEdges : e[1] = s /\ e[2] = c)[3]
    ELSE ""

\* A lexer that takes "in" followed by another token for the keyword int.
IdentOrKwTokenPrefix(s, raw) ==
    CASE s = "IdentOrKwIf2"       -> Kw("If")
      [] s = "IdentOrKwInt2"      -> Kw("Int")
      [] s = "IdentOrKwInt3"      -> Kw("Int")
      [] s = "IdentOrKwFor3"      -> Kw("For")
      [] s = "IdentOrKwWhile5"    -> Kw("While")
      [] s = "IdentOrKwDo2"       -> Kw("Do")
      [] s = "IdentOrKwReturn6"   -> Kw("Return")
      [] s = "IdentOrKwBreak5"    -> Kw("Break")
      [] s = "IdentOrKwContinue8" -> Kw("Continue")
      [] OTHER                    -> Ident(raw)

\* The token the `_` arm of an Ident_/IdentOrKw* state pushes.
IdentOrKwToken(s, raw) ==
    CASE s = "IdentOrKwIf2"       -> Kw("If")
      [] s = "IdentOrKwInt3"      -> Kw("Int")
      [] s = "IdentOrKwFor3"      -> Kw("For")
      [] s = "IdentOrKwWhile5"    -> Kw("While")
      [] s = "IdentOrKwDo2"       -> Kw("Do")
      [] s = "IdentOrKwReturn6"   -> Kw("Return")
      [] s = "IdentOrKwBreak5"    -> Kw("Break")
      [] s = "IdentOrKwContinue8" -> Kw("Continue")
      [] OTHER                    -> Ident(raw)

\* A lexer that ends a keyword as soon as it is spelled, whatever follows.
AutoIdentOrKwEager(st) ==
    LET c == st.pc.c IN
    IF KwEdge(st.state, c) # ""
    THEN [st EXCEPT !.current_token_raw = Append(@, c), !.state = KwEdge(st.state, c)]
    ELSE IF c \in IdentChar /\ IdentOrKwToken(st.state, st.current_token_raw).kind # "Kw"
    THEN [st EXCEPT !.current_token_raw = Append(@, c), !.state = "Ident_"]
    ELSE [PushToken(st, IdentOrKwToken(st.state, st.current_token_raw))
             EXCEPT !.keep_char = TRUE, !.state = "Start"]

\* The arms Ident_ and IdentOrKw* of the automaton.
AutoIdentOrKw(st) ==
    LET c == st.pc.c IN
    IF KwEdge(st.state, c) # ""
    THEN [st EXCEPT !.current_token_raw = Append(@, c), !.state = KwEdge(st.state, c)]
    ELSE IF c \in IdentChar
    THEN [st EXCEPT !.current_token_raw = Append(@, c), !.state = "Ident_"]
    ELSE [PushToken(st, IdentOrKwToken(st.state, st.current_token_raw))
             EXCEPT !.keep_char = TRUE, !.state = "Start"]

OpStates == {"OpAssignOrEq", "OpGtOrGe", "OpLtOrLe", "OpNotOrNe"}

\* The token an Op* state pushes when '=' follows.
TwoCharOp(s) ==
    CASE s = "OpAssignOrEq" -> Op("Eq")
      [] s = "OpGtOrGe"     -> Op("Ge")
      [] s = "OpLtOrLe"     -> Op("Le")
      [] s = "OpNotOrNe"    -> Op("Ne")

\* The token an Op* state pushes when anything else follows.
OneCharOp(s) ==
    CASE s = "OpAssignOrEq" -> Op("Assign")
      [] s = "OpGtOrGe"     -> Op("Gt")
      [] s = "OpLtOrLe"     -> Op("Lt")
      [] s = "OpNotOrNe"    -> Op("Not")

\* A lexer that leaves the '=' of a two-character operator out of its raw.
AutoOpShortRaw(st) ==
    IF st.pc.c = "="
    THEN [PushToken(st, TwoCharOp(st.state)) EXCEPT !.state = "Start"]
    ELSE [PushToken(st, OneCharOp(st.state)) EXCEPT !.keep_char = TRUE, !.state = "Start"]

\* A lexer that drops the character that ends a one-character operator.
AutoOpSkipsNext(st) ==
    IF st.pc.c = "="
    THEN LET t == [st EXCEPT !.current_token_raw = Append(@, st.pc.c)]
         IN [PushToken(t, TwoCharOp(st.state)) EXCEPT !.state = "Start"]
    ELSE [PushToken(st, OneCharOp(st.state)) EXCEPT !.state = "Start"]

\* The arms OpAssignOrEq, OpGtOrGe, OpLtOrLe and OpNotOrNe of the automaton.
AutoOp(st) ==
    IF st.pc.c = "="
    THEN LET t == [st EXCEPT !.current_token_raw = Append(@, st.pc.c)]
         IN [PushToken(t, TwoCharOp(st.state)) EXCEPT !.state = "Start"]
    ELSE [PushToken(st, OneCharOp(st.state)) EXCEPT !.keep_char = TRUE, !.state = "Start"]

\* The arm LiteralInt of the automaton.
AutoLiteralInt(st) ==
    LET c == st.pc.c IN
    CASE c \in Digit      -> [st EXCEPT !.current_token_raw = Append(@, c)]
      [] c \in IdentStart -> Fail(st)
      [] OTHER            -> [PushToken(st, LiteralInt(st.current_token_raw))
                                 EXCEPT !.keep_char = TRUE, !.state = "Start"]

\* A lexer that reads a literal starting with 0 like any other literal.
AutoLiteralZeroLikeInt(st) ==
    LET c == st.pc.c IN
    CASE c \in Digit      -> [st EXCEPT !.current_token_raw = Append(@, c)]
      [] c \in IdentStart -> Fail(st)
      [] OTHER            -> [PushToken(st, LiteralInt(<<"0">>))
                                 EXCEPT !.keep_char = TRUE, !.state = "Start"]

\* The arm LiteralZero of the automaton.
AutoLiteralZero(st) ==
    IF st.pc.c \in IdentChar
    THEN Fail(st)
    ELSE [PushToken(st, LiteralInt(<<"0">>)) EXCEPT !.keep_char = TRUE, !.state = "Start"]

\* state = match state { ... }
Automaton(st) ==
    CASE st.state = "Start"        -> AutoStart(st)
      [] st.state \in IdentStates  -> AutoIdentOrKw(st)
      [] st.state \in OpStates     -> AutoOp(st)
      [] st.state = "LiteralInt"   -> AutoLiteralInt(st)
      [] st.state = "LiteralZero"  -> AutoLiteralZero(st)

\* The loop leaves through `None => break`.
LexAtBreak(st) == ~st.keep_char /\ st.iter = <<>>

\* One iteration of the loop that does not break.
LexIter(st) ==
    LET fetched == IF st.keep_char THEN st
                   ELSE [st EXCEPT !.pc = Head(st.iter), !.iter = Tail(@)]
    IN Automaton([fetched EXCEPT !.keep_char = FALSE])

\* A lexer for which a keyword at the end of the input is an identifier.
EofAlwaysIdent(s, raw) == Ident(raw)

\* The token `// handle EOF` pushes for an Ident_/IdentOrKw* state.
EofIdentOrKwToken(s, raw) ==
    CASE s = "IdentOrKwIf2"       -> Kw("If")
      [] s = "IdentOrKwInt3"      -> Kw("Int")
      [] s = "IdentOrKwFor3"      -> Kw("For")
      [] s = "IdentOrKwWhile5"    -> Kw("While")
      [] s = "IdentOrKwDo2"       -> Kw("Do")
      [] s = "IdentOrKwReturn6"   -> Kw("Return")
      [] s = "IdentOrKwBreak5"    -> Kw("Break")
      [] s = "IdentOrKwContinue8" -> Kw("Continue")
      [] OTHER                    -> Ident(raw)

\* `// handle EOF` and the return.
LexEnd(st) ==
    LET t == CASE st.state = "Start"       -> st
               [] st.state \in IdentStates ->
                      PushToken(st, EofIdentOrKwToken(st.state, st.current_token_raw))
               [] st.state \in OpStates    -> PushToken(st, OneCharOp(st.state))
               [] st.state = "LiteralInt"  -> PushToken(st, LiteralInt(st.current_token_raw))
               [] st.state = "LiteralZero" -> PushToken(st, LiteralInt(<<"0">>))
    IN [t EXCEPT !.result = LexOk(t.tokens)]

RECURSIVE LexLoop(_)
LexLoop(st) ==
    IF st.result.tag # "Running" THEN st
    ELSE IF LexAtBreak(st) THEN LexEnd(st)
    ELSE LexLoop(LexIter(st))

\* lex as a function of the whole input.
Lex(input) == LexLoop(LexBegin(input)).result

-----------------------------------------------------------------------------
(* comp/parser.rs: the LL(1) table and parse                               *)

\* enum Terminal, by the name of the variant.
Terminals == {"Ident", "Sym(LeftParen)", "Sym(RightParen)", "Op(Add)", "Op(Mul)",
              "LiteralInt", "Eos"}

\* The names of the nonterminals of LL1ParseTable::default().
Nonterminals == {"E", "E'", "T", "T'", "F"}

\* enum Term
TermTerminal(t) == [term |-> "Terminal", v |-> t]

TermNonterminal(name) == [term |-> "Nonterminal", v |-> name]

\* impl TryFrom<Token> for Terminal: the terminal of a token, "" for Err(value).
TryFromToken(value) ==
    LET tv == value.token IN
    CASE tv.kind = "Ident"                                 -> "Ident"
      [] tv.kind = "Sym" /\ tv.variant = "LeftParen"       -> "Sym(LeftParen)"
      [] tv.kind = "Sym" /\ tv.variant = "RightParen"      -> "Sym(RightParen)"
      [] tv.kind = "Op" /\ tv.variant = "Add"              -> "Op(Add)"
      [] tv.kind = "Op" /\ tv.variant = "Mul"              -> "Op(Mul)"
      [] tv.kind = "LiteralInt"                            -> "LiteralInt"
      [] OTHER                                             -> ""

LL1Rule(lhs, rhs) == [lhs |-> lhs, rhs |-> rhs]

\* LL1ParseTable::default().rules; the rule of Rust index k is Rules[k + 1].
Rules ==
    << LL1Rule("E",  <<TermNonterminal("T"), TermNonterminal("E'")>>),
       LL1Rule("E'", <<TermTerminal("Op(Add)"), TermNonterminal("T"), TermNonterminal("E'")>>),
       LL1Rule("E'", <<>>),
       LL1Rule("T",  <<TermNonterminal("F"), TermNonterminal("T'")>>),
       LL1Rule("T'", <<TermTerminal("Op(Mul)"), TermNonterminal("F"), TermNonterminal("T'")>>),
       LL1Rule("T'", <<>>),
       LL1Rule("F",  <<TermTerminal("Sym(LeftParen)"), TermNonterminal("E"),
                       TermTerminal("Sym(RightParen)")>>),
       LL1Rule("F",  <<TermTerminal("Ident")>>),
       LL1Rule("F",  <<TermTerminal("LiteralInt")>>) >>

RuleAt(index) == Rules[index + 1]

\* A table whose cell (E', ")") holds rule 5, a rule of T'.
TableWrongCell ==
    { <<"E", "Sym(LeftParen)", 0>>, <<"E", "Ident", 0>>, <<"E", "LiteralInt", 0>>,
      <<"E'", "Op(Add)", 1>>, <<"E'", "Sym(RightParen)", 5>>, <<"E'", "Eos", 2>>,
      <<"T", "Sym(LeftParen)", 3>>, <<"T", "Ident", 3>>, <<"T", "LiteralInt", 3>>,
      <<"T'", "Op(Add)", 5>>, <<"T'", "Op(Mul)", 4>>, <<"T'", "Sym(RightParen)", 5>>,
      <<"T'", "Eos", 5>>,
      <<"F", "Sym(LeftParen)", 6>>, <<"F", "Ident", 7>>, <<"F", "LiteralInt", 8>> }

\* A table that also takes the empty rules of E' and T' on Ident.
TableEmptyOnIdent ==
    { <<"E", "Sym(LeftParen)", 0>>, <<"E", "Ident", 0>>, <<"E", "LiteralInt", 0>>,
      <<"E'", "Op(Add)", 1>>, <<"E'", "Sym(RightParen)", 2>>, <<"E'", "Eos", 2>>,
      <<"E'", "Ident", 2>>,
      <<"T", "Sym(LeftParen)", 3>>, <<"T", "Ident", 3>>, <<"T", "LiteralInt", 3>>,
      <<"T'", "Op(Add)", 5>>, <<"T'", "Op(Mul)", 4>>, <<"T'", "Sym(RightParen)", 5>>,
      <<"T'", "Eos", 5>>, <<"T'", "Ident", 5>>,
      <<"F", "Sym(LeftParen)", 6>>, <<"F", "Ident", 7>>, <<"F", "LiteralInt", 8>> }

\* LL1ParseTable::default().table: <<nonterminal, terminal, index>>.
Table ==
    { <<"E", "Sym(LeftParen)", 0>>, <<"E", "Ident", 0>>, <<"E", "LiteralInt", 0>>,
      <<"E'", "Op(Add)", 1>>, <<"E'", "Sym(RightParen)", 2>>, <<"E'", "Eos", 2>>,
      <<"T", "Sym(LeftParen)", 3>>, <<"T", "Ident", 3>>, <<"T", "LiteralInt", 3>>,
      <<"T'", "Op(Add)", 5>>, <<"T'", "Op(Mul)", 4>>, <<"T'", "Sym(RightParen)", 5>>,
      <<"T'", "Eos", 5>>,
      <<"F", "Sym(LeftParen)", 6>>, <<"F", "Ident", 7>>, <<"F", "LiteralInt", 8>> }

\* LL1ParseTable::default().start
StartSymbol == "E"

\* The result of table.get: no index.
NoIndex == -1

\* parse_table.table.get(&(nonterminal, terminal))
TableGet(nonterminal, terminal) ==
    IF \E e \in Table : e[1] = nonterminal /\ e[2] = terminal
    THEN (CHOOSE e \in Table : e[1] = nonterminal /\ e[2] = terminal)[3]
    ELSE NoIndex

\* enum ParseTraceRowRule
RowRule(index) == [tag |-> "Rule", index |-> index]

RowNone == [tag |-> "None", index |-> NoIndex]

RowErr == [tag |-> "Err", index |-> NoIndex]

\* struct ParseTraceRow
ParseTraceRow(stk, inp, rule) == [stack |-> stk, input |-> inp, rule |-> rule]

\* The token of the results that carry none.
NoToken == Token(Ident(<<>>), 0, 0, <<>>)

\* The second component of the value parse returns; "Panic" is a failed
\* assert_eq!, "Idle" and "Running" are parse not called and not returned.
ParseIdle == [tag |-> "Idle", token |-> NoToken]

ParseRunning == [tag |-> "Running", token |-> NoToken]

ParseOk == [tag |-> "Ok", token |-> NoToken]

InvalidToken(token) == [tag |-> "InvalidToken", token |-> token]

UnexpectedToken(token) == [tag |-> "UnexpectedToken", token |-> token]

ExtraToken(token) == [tag |-> "ExtraToken", token |-> token]

UnexpectedEos == [tag |-> "UnexpectedEos", token |-> NoToken]

ParsePanic == [tag |-> "Panic", token |-> NoToken]

\* The locals of parse as one record.
ParseLocals(stk, inp, tr, res) ==
    [stack |-> stk, input |-> inp, trace |-> tr, result |-> res]

ParseNotCalled == ParseLocals(<<>>, <<>>, <<>>, ParseIdle)

\* .rev() of a vector.
Rev(s) == [k \in 1..Len(s) |-> s[Len(s) + 1 - k]]

\* A parse that drops the tokens that are no terminal instead of returning.
ParseBeginSkipInvalid(toks) ==
    LET rev == Rev(toks)
        good == SelectSeq([k \in 1..Len(rev) |->
                              [token |-> rev[k], terminal |-> TryFromToken(rev[k])]],
                          LAMBDA e : e.terminal # "")
    IN ParseLocals(<<TermNonterminal(StartSymbol)>>, good, <<>>, ParseRunning)

\* parse up to the loop: the start symbol is pushed, the tokens are reversed
\* and converted, and the first Err of the conversion returns.
ParseBegin(toks) ==
    LET rev == Rev(toks)
        bad == {k \in 1..Len(rev) : TryFromToken(rev[k]) = ""}
    IN IF bad # {}
       THEN ParseLocals(<<TermNonterminal(StartSymbol)>>, <<>>, <<>>,
                        InvalidToken(rev[CHOOSE k \in bad : \A m \in bad : k <= m]))
       ELSE ParseLocals(<<TermNonterminal(StartSymbol)>>,
                        [k \in 1..Len(rev) |->
                            [token |-> rev[k], terminal |-> TryFromToken(rev[k])]],
                        <<>>, ParseRunning)

\* input.iter().map(|v| v.0.clone()).collect()
InputTokens(inp) == [k \in 1..Len(inp) |-> inp[k].token]

\* trace.push(ParseTraceRow { stack: stack.clone(), input: .., rule })
PushRow(st, rule) ==
    [st EXCEPT !.trace = Append(@, ParseTraceRow(st.stack, InputTokens(st.input), rule))]

Pop(s) == SubSeq(s, 1, Len(s) - 1)

Last(s) == s[Len(s)]

\* A parse that takes the end of the input for any terminal it expects.
StepTerminalAtEosPops(st) ==
    IF st.input = <<>>
    THEN [PushRow(st, RowNone) EXCEPT !.stack = Pop(st.stack)]
    ELSE IF Last(st.stack).v = Last(st.input).terminal
    THEN [PushRow(st, RowNone) EXCEPT !.stack = Pop(st.stack), !.input = Pop(st.input)]
    ELSE [PushRow(st, RowErr) EXCEPT !.result = UnexpectedToken(Last(st.input).token)]

\* A parse that leaves a matched terminal on the stack and in the input.
StepTerminalStalls(st) ==
    IF st.input = <<>>
    THEN [PushRow(st, RowErr) EXCEPT !.result = UnexpectedEos]
    ELSE IF Last(st.stack).v = Last(st.input).terminal
    THEN st
    ELSE [PushRow(st, RowErr) EXCEPT !.result = UnexpectedToken(Last(st.input).token)]

\* The arm Some(Term::Terminal(terminal)) of the loop.
StepTerminal(st) ==
    IF st.input = <<>>
    THEN [PushRow(st, RowErr) EXCEPT !.result = UnexpectedEos]
    ELSE IF Last(st.stack).v = Last(st.input).terminal
    THEN [PushRow(st, RowNone) EXCEPT !.stack = Pop(st.stack), !.input = Pop(st.input)]
    ELSE [PushRow(st, RowErr) EXCEPT !.result = UnexpectedToken(Last(st.input).token)]

\* A parse that pushes the right-hand side of a rule without reversing it.
ExpandUnreversed(st, index) ==
    IF RuleAt(index).lhs # Last(st.stack).v
    THEN [st EXCEPT !.result = ParsePanic]
    ELSE [PushRow(st, RowRule(index))
             EXCEPT !.stack = Pop(st.stack) \o RuleAt(index).rhs]

\* The rule at index is applied: assert_eq!, the row, the pop and the extend.
Expand(st, index) ==
    IF RuleAt(index).lhs # Last(st.stack).v
    THEN [st EXCEPT !.result = ParsePanic]
    ELSE [PushRow(st, RowRule(index))
             EXCEPT !.stack = Pop(st.stack) \o Rev(RuleAt(index).rhs)]

\* A parse that returns its errors on a nonterminal without a trace row.
StepNonterminalNoErrRow(st) ==
    LET nonterminal == Last(st.stack).v
        terminal == IF st.input = <<>> THEN "Eos" ELSE Last(st.input).terminal
        index == TableGet(nonterminal, terminal)
    IN IF index # NoIndex THEN Expand(st, index)
       ELSE IF st.input = <<>>
       THEN [st EXCEPT !.result = UnexpectedEos]
       ELSE [st EXCEPT !.result = UnexpectedToken(Last(st.input).token)]

\* The arm Some(Term::Nonterminal(nonterminal)) of the loop.
StepNonterminal(st) ==
    LET nonterminal == Last(st.stack).v
        terminal == IF st.input = <<>> THEN "Eos" ELSE Last(st.input).terminal
        index == TableGet(nonterminal, terminal)
    IN IF index # NoIndex THEN Expand(st, index)
       ELSE IF st.input = <<>>
       THEN [PushRow(st, RowErr) EXCEPT !.result = UnexpectedEos]
       ELSE [PushRow(st, RowErr) EXCEPT !.result = UnexpectedToken(Last(st.input).token)]

\* A parse that takes the extra token off the input before recording the row.
StepEmptyStackPopsFirst(st) ==
    [PushRow([st EXCEPT !.input = Pop(st.input)], RowErr)
        EXCEPT !.result = ExtraToken(Last(st.input).token)]

\* A parse that reports the last token of the stream as the extra one.
StepEmptyStackCarriesLast(st) ==
    [PushRow(st, RowErr) EXCEPT !.input = Pop(st.input),
                                !.result = ExtraToken(Head(st.input).token)]

\* The arm None of the loop: the stack is empty and the input is not.
StepEmptyStack(st) ==
    [PushRow(st, RowErr) EXCEPT !.input = Pop(st.input),
                                !.result = ExtraToken(Last(st.input).token)]

\* The loop ends: stack.is_empty() && input.is_empty().
ParseAtEnd(st) == st.stack = <<>> /\ st.input = <<>>

\* One iteration of the loop.
ParseStep(st) ==
    CASE st.stack = <<>>                       -> StepEmptyStack(st)
      [] Last(st.stack).term = "Terminal"      -> StepTerminal(st)
      [] Last(st.stack).term = "Nonterminal"   -> StepNonterminal(st)

\* A parse that returns Ok without recording the final row.
ParseFinishNoRow(st) == [st EXCEPT !.result = ParseOk]

\* The code after the loop.
ParseFinish(st) == [PushRow(st, RowNone) EXCEPT !.result = ParseOk]

RECURSIVE ParseLoop(_)
ParseLoop(st) ==
    IF st.result.tag # "Running" THEN st
    ELSE IF ParseAtEnd(st) THEN ParseFinish(st)
    ELSE ParseLoop(ParseStep(st))

\* parse as a function of the tokens: its locals at the return.
Parse(toks) == ParseLoop(ParseBegin(toks))

-----------------------------------------------------------------------------
(* linalg/inversion_number.rs: inv                                         *)

InvRunning == [tag |-> "Running", value |-> 0]

InvReturned(value) == [tag |-> "Returned", value |-> value]

\* The locals of inv as one record; i and j count from 0 as in the code.
InvLocals(nums, i, j, a, res) ==
    [numbers |-> nums, i |-> i, j |-> j, ans |-> a, result |-> res]

InvNotCalled == InvLocals(<<>>, 0, 0, 0, InvRunning)

\* let l = numbers.len(); let mut ans = zero(); and the loops at i = 0, j = i.
InvBegin(nums) == InvLocals(nums, 0, 0, 0, InvRunning)

\* An inv that also counts the pairs of equal numbers.
InvInnerStepGeq(st) ==
    [st EXCEPT !.ans = IF st.numbers[st.i + 1] >= st.numbers[st.j + 1] THEN @ + 1 ELSE @,
               !.j = @ + 1]

\* The body of `for j in i..l`: if numbers[i] > numbers[j] { ans += 1 }.
InvInnerStep(st) ==
    [st EXCEPT !.ans = IF st.numbers[st.i + 1] > st.numbers[st.j + 1] THEN @ + 1 ELSE @,
               !.j = @ + 1]

\* `for j in i..l` is over: the next i, and j starts at i again.
InvOuterStep(st) == [st EXCEPT !.i = @ + 1, !.j = st.i + 1]

\* `for i in 0..l` is over: ans is returned.
InvReturnStep(st) == [st EXCEPT !.result = InvReturned(st.ans)]

InvStep(st) ==
    IF st.i >= Len(st.numbers) THEN InvReturnStep(st)
    ELSE IF st.j >= Len(st.numbers) THEN InvOuterStep(st)
    ELSE InvInnerStep(st)

RECURSIVE InvLoop(_)
InvLoop(st) == IF st.result.tag # "Running" THEN st ELSE InvLoop(InvStep(st))

\* inv as a function of the slice.
Inv(nums) == InvLoop(InvBegin(nums)).result.value

-----------------------------------------------------------------------------
(* The preprocessor run one character at a time.                           *)

LexState ==
    LexLocals(lex_iter, pc, keep_char, state, tokens,
              current_token_row, current_token_col, current_token_raw, lex_result)

LexVarsAre(st) ==
    /\ lex_iter = st.iter
    /\ pc = st.pc
    /\ keep_char = st.keep_char
    /\ state = st.state
    /\ tokens = st.tokens
    /\ current_token_row = st.current_token_row
    /\ current_token_col = st.current_token_col
    /\ current_token_raw = st.current_token_raw
    /\ lex_result = st.result

SetLex(st) ==
    /\ lex_iter' = st.iter
    /\ pc' = st.pc
    /\ keep_char' = st.keep_char
    /\ state' = st.state
    /\ tokens' = st.tokens
    /\ current_token_row' = st.current_token_row
    /\ current_token_col' = st.current_token_col
    /\ current_token_raw' = st.current_token_raw
    /\ lex_result' = st.result

Locals == PreLocals(row, col, spaced, comment_state, preprocessed)

SetLocals(st) ==
    /\ row' = st.row
    /\ col' = st.col
    /\ spaced' = st.spaced
    /\ comment_state' = st.comment_state
    /\ preprocessed' = st.preprocessed

ParseState == ParseLocals(stack, parse_input, trace, parse_result)

ParseVarsAre(st) ==
    /\ stack = st.stack
    /\ parse_input = st.input
    /\ trace = st.trace
    /\ parse_result = st.result

SetParse(st) ==
    /\ stack' = st.stack
    /\ parse_input' = st.input
    /\ trace' = st.trace
    /\ parse_result' = st.result

InvState == InvLocals(numbers, inv_i, inv_j, ans, inv_result)

InvVarsAre(st) ==
    /\ numbers = st.numbers
    /\ inv_i = st.i
    /\ inv_j = st.j
    /\ ans = st.ans
    /\ inv_result = st.result

SetInv(st) ==
    /\ numbers' = st.numbers
    /\ inv_i' = st.i
    /\ inv_j' = st.j
    /\ ans' = st.ans
    /\ inv_result' = st.result

Init ==
    /\ source = <<>>
    /\ row = PreStart.row
    /\ col = PreStart.col
    /\ spaced = PreStart.spaced
    /\ comment_state = PreStart.comment_state
    /\ preprocessed = PreStart.preprocessed
    /\ pre_result = PreRunning
    /\ stage = "preprocess"
    /\ LexVarsAre(LexIdle)
    /\ ParseVarsAre(ParseNotCalled)
    /\ InvVarsAre(InvNotCalled)

\* The loop takes the next character of the source.
PreChar(c) ==
    /\ pre_result.tag = "Running"
    /\ Len(source) < MaxLen
    /\ source' = Append(source, c)
    /\ SetLocals(PreStep(Locals, c))
    /\ UNCHANGED <<pre_result, stage, lex_vars, parse_vars, inv_vars>>

\* The source is exhausted: the code after the loop returns.
PreEof ==
    /\ pre_result.tag = "Running"
    /\ pre_result' = PreFinish(Locals)
    /\ UNCHANGED <<source, pre_vars, stage, lex_vars, parse_vars, inv_vars>>

Next ==
    \/ \E c \in PreChars : PreChar(c)
    \/ PreEof

Spec == Init /\ [][Next]_vars

-----------------------------------------------------------------------------
(* LexerSolver::solve: preprocess, then lex, on a source given whole.      *)

SeqsUpTo(S, n) == UNION {[1..k -> S] : k \in 0..n}

\* The spellings of the eight keywords.
KwSpellings ==
    { <<"i", "f">>, <<"i", "n", "t">>, <<"f", "o", "r">>, <<"w", "h", "i", "l", "e">>,
      <<"d", "o">>, <<"r", "e", "t", "u", "r", "n">>, <<"b", "r", "e", "a", "k">>,
      <<"c", "o", "n", "t", "i", "n", "u", "e">> }

\* Whether "*/" occurs in text first at index i.
FirstCloserAt(text, i) ==
    /\ i + 1 <= Len(text) /\ text[i] = "*" /\ text[i + 1] = "/"
    /\ \A j \in 1..(i - 1) : ~(text[j] = "*" /\ text[j + 1] = "/")

\* The sources x/*body*/y: the comment opened after x is closed right before y.
EdgeChars == {"a", "_", "i"}

BodyChars == {"*", "/", " ", "\n", "a"}

CommentSources ==
    { <<x, "/", "*">> \o body \o <<"*", "/", y>> :
        x \in EdgeChars, y \in EdgeChars,
        body \in {b \in SeqsUpTo(BodyChars, MaxBody) :
                     FirstCloserAt(b \o <<"*", "/">>, Len(b) + 1)} }

\* The sources with a keyword at a token start, followed by a short text.
TailChars == {"x", "E", "7", "_", " ", "="}

KeywordSources ==
    { p \o kw \o tail :
        p \in {<<>>, <<"+">>}, kw \in KwSpellings, tail \in SeqsUpTo(TailChars, MaxTail) }

\* The short texts over a zero, a digit, a letter, an underscore, a space,
\* a character that starts a one- or two-character operator, and a character
\* no token starts with.
GenChars == {"0", "7", "a", "_", " ", "=", "$"}

GeneralSources == SeqsUpTo(GenChars, MaxGen)

\* The nonempty prefixes of the keywords, the keywords included.
KeywordPrefixes == UNION {{SubSeq(kw, 1, k) : k \in 1..Len(kw)} : kw \in KwSpellings}

LowerLetters == <<"a", "b", "c", "d", "e", "f", "g", "h", "i", "j", "k", "l", "m",
                  "n", "o", "p", "q", "r", "s", "t", "u", "v", "w", "x", "y", "z">>

UpperLetters == <<"A", "B", "C", "D", "E", "F", "G", "H", "I", "J", "K", "L", "M",
                  "N", "O", "P", "Q", "R", "S", "T", "U", "V", "W", "X", "Y", "Z">>

ToUpper(c) == UpperLetters[CHOOSE k \in 1..Len(LowerLetters) : LowerLetters[k] = c]

\* The keywords with the first letter, or every letter, in upper case.
CaseVariants ==
    {<<ToUpper(Head(kw))>> \o Tail(kw) : kw \in KwSpellings}
        \cup {[k \in 1..Len(kw) |-> ToUpper(kw[k])] : kw \in KwSpellings}

\* The sources that start with a prefix or a case variant of a keyword,
\* followed by a short text or by a keyword.
PrefixSources ==
    { p \o tail : p \in KeywordPrefixes \cup CaseVariants,
                  tail \in SeqsUpTo(TailChars, MaxTail) \cup KwSpellings }

\* The short texts of characters that start operators and symbols.
OpChars == {"<", ">", "!", "=", "(", ";", "-"}

OperatorSources == SeqsUpTo(OpChars, MaxTail)

SolverSources ==
    CommentSources \cup KeywordSources \cup GeneralSources
        \cup PrefixSources \cup OperatorSources

SolveInit ==
    /\ source \in SolverSources
    /\ row = PreStart.row
    /\ col = PreStart.col
    /\ spaced = PreStart.spaced
    /\ comment_state = PreStart.comment_state
    /\ preprocessed = PreStart.preprocessed
    /\ pre_result = PreRunning
    /\ stage = "preprocess"
    /\ LexVarsAre(LexIdle)
    /\ ParseVarsAre(ParseNotCalled)
    /\ InvVarsAre(InvNotCalled)

\* let preprocessed = match preprocess(input) { Ok(..) => .., Err(e) => return .. }
SolvePreprocess ==
    /\ stage = "preprocess"
    /\ SetLocals(PreFold(PreStart, source, 1))
    /\ pre_result' = Preprocess(source)
    /\ stage' = IF Preprocess(source).tag = "Ok" THEN "lex" ELSE "done"
    /\ UNCHANGED <<source, lex_vars, parse_vars, inv_vars>>

\* lex(preprocessed), up to its loop.
SolveLexBegin ==
    /\ stage = "lex"
    /\ SetLex(LexBegin(pre_result.out))
    /\ stage' = IF LexBegin(pre_result.out).result.tag = "Running" THEN "lex_loop" ELSE "done"
    /\ UNCHANGED <<source, pre_vars, pre_result, parse_vars, inv_vars>>

\* One iteration of the loop of lex; an Err returns from lex.
SolveLexIter ==
    /\ stage = "lex_loop"
    /\ ~LexAtBreak(LexState)
    /\ SetLex(LexIter(LexState))
    /\ stage' = IF LexIter(LexState).result.tag = "Running" THEN "lex_loop" ELSE "done"
    /\ UNCHANGED <<source, pre_vars, pre_result, parse_vars, inv_vars>>

\* The iterator is exhausted: lex handles EOF and returns.
SolveLexEnd ==
    /\ stage = "lex_loop"
    /\ LexAtBreak(LexState)
    /\ SetLex(LexEnd(LexState))
    /\ stage' = "done"
    /\ UNCHANGED <<source, pre_vars, pre_result, parse_vars, inv_vars>>

SolveNext ==
    \/ SolvePreprocess
    \/ SolveLexBegin
    \/ SolveLexIter
    \/ SolveLexEnd

SpecLex == SolveInit /\ [][SolveNext]_vars

-----------------------------------------------------------------------------
(* ParserSolver::solve: preprocess, lex, then parse.                       *)

\* The words of the sources: one for each terminal of the grammar.
Words == { <<"a">>, <<"7">>, <<"+">>, <<"*">>, <<"(">>, <<")">> }

\* A keyword, a symbol and an operator that are no terminal of the grammar.
BadWords == { <<"i", "f">>, <<";">>, <<"-">> }

\* The words separated by one space.
RECURSIVE JoinWords(_)
JoinWords(ws) ==
    IF ws = <<>> THEN <<>>
    ELSE IF Len(ws) = 1 THEN ws[1]
    ELSE ws[1] \o <<" ">> \o JoinWords(Tail(ws))

\* The source of test_parse.
TestParseSource == <<"a", " ", "+", " ", "b", "\n">>

\* Longer expressions, and sources the preprocessor and the lexer reject.
OtherParserSources ==
    { <<"(", "a", "+", "7", ")", "*", "b">>, <<"a", "*", "(", "b", "+", "7", ")">>,
      <<"a", "+", "(", "i", "f">>, <<"/", "*">>, <<"0", "a">> }

ParserSources ==
    {JoinWords(ws) : ws \in SeqsUpTo(Words, MaxTokens)}
        \cup {JoinWords(ws) : ws \in SeqsUpTo(Words \cup BadWords, MaxBad)}
        \cup {TestParseSource} \cup OtherParserSources

ParserInit ==
    /\ source \in ParserSources
    /\ row = PreStart.row
    /\ col = PreStart.col
    /\ spaced = PreStart.spaced
    /\ comment_state = PreStart.comment_state
    /\ preprocessed = PreStart.preprocessed
    /\ pre_result = PreRunning
    /\ stage = "preprocess"
    /\ LexVarsAre(LexIdle)
    /\ ParseVarsAre(ParseNotCalled)
    /\ InvVarsAre(InvNotCalled)

\* What solve returns, from the results of the three calls: the stage its
\* view is titled with, the error it shows ("" for none), and the trace it
\* renders with into_view_with_table, if any.
SolveView(pre, lexed, parsed, tr) ==
    CASE pre.tag # "Ok" ->
             [title |-> "preprocess", error |-> pre.tag, with_trace |-> FALSE, trace |-> <<>>]
      [] pre.tag = "Ok" /\ lexed.tag # "Ok" ->
             [title |-> "lex", error |-> lexed.tag, with_trace |-> FALSE, trace |-> <<>>]
      [] pre.tag = "Ok" /\ lexed.tag = "Ok" /\ parsed.tag = "Ok" ->
             [title |-> "parse", error |-> "", with_trace |-> TRUE, trace |-> tr]
      [] pre.tag = "Ok" /\ lexed.tag = "Ok" /\ parsed.tag = "InvalidToken" ->
             [title |-> "parse", error |-> parsed.tag, with_trace |-> FALSE, trace |-> <<>>]
      [] OTHER ->
             [title |-> "parse", error |-> parsed.tag, with_trace |-> TRUE, trace |-> tr]

\* A solve that lexes what preprocess has collected even when it fails.
ParserLexNoShortCircuit ==
    /\ stage = "preprocess"
    /\ SetLocals(PreFold(PreStart, source, 1))
    /\ pre_result' = Preprocess(source)
    /\ LET st == LexLoop(LexBegin(PreFold(PreStart, source, 1).preprocessed))
       IN /\ SetLex(st)
          /\ stage' = IF Preprocess(source).tag = "Ok" /\ st.result.tag = "Ok"
                      THEN "parse" ELSE "done"
    /\ UNCHANGED <<source, parse_vars, inv_vars>>

\* preprocess(input) and, when it succeeds, lex(preprocessed); an Err of
\* either returns from solve.
ParserLex ==
    /\ stage = "preprocess"
    /\ SetLocals(PreFold(PreStart, source, 1))
    /\ pre_result' = Preprocess(source)
    /\ IF Preprocess(source).tag = "Ok"
       THEN LET st == LexLoop(LexBegin(Preprocess(source).out))
            IN /\ SetLex(st)
               /\ stage' = IF st.result.tag = "Ok" THEN "parse" ELSE "done"
       ELSE /\ UNCHANGED lex_vars
            /\ stage' = "done"
    /\ UNCHANGED <<source, parse_vars, inv_vars>>

\* parse(table.clone(), tokens), up to its loop.
ParserParseBegin ==
    /\ stage = "parse"
    /\ SetParse(ParseBegin(lex_result.tokens))
    /\ stage' = IF ParseBegin(lex_result.tokens).result.tag = "Running"
                THEN "parse_loop" ELSE "done"
    /\ UNCHANGED <<source, pre_vars, pre_result, lex_vars, inv_vars>>

\* One iteration of the loop of parse; an error returns from parse.
ParserParseStep ==
    /\ stage = "parse_loop"
    /\ ~ParseAtEnd(ParseState)
    /\ SetParse(ParseStep(ParseState))
    /\ stage' = IF ParseStep(ParseState).result.tag = "Running" THEN "parse_loop" ELSE "done"
    /\ UNCHANGED <<source, pre_vars, pre_result, lex_vars, inv_vars>>

\* The stack and the input are empty: parse returns Ok.
ParserParseFinish ==
    /\ stage = "parse_loop"
    /\ ParseAtEnd(ParseState)
    /\ SetParse(ParseFinish(ParseState))
    /\ stage' = "done"
    /\ UNCHANGED <<source, pre_vars, pre_result, lex_vars, inv_vars>>

ParserNext ==
    \/ ParserLex
    \/ ParserParseBegin
    \/ ParserParseStep
    \/ ParserParseFinish

SpecParse == ParserInit /\ [][ParserNext]_vars

\* The sources of the runs followed to their end: the shorter texts made of
\* terminals of the grammar, and the other sources.
FairSources ==
    {JoinWords(ws) : ws \in SeqsUpTo(Words, MaxBad)}
        \cup {TestParseSource} \cup OtherParserSources

ParserFairInit == ParserInit /\ source \in FairSources

\* parse is one sequential call: once solve has called it, each step of it
\* that can be taken is taken.
SpecParseFair ==
    /\ ParserFairInit
    /\ [][ParserNext]_vars
    /\ WF_vars(ParserParseBegin)
    /\ WF_vars(ParserParseStep)
    /\ WF_vars(ParserParseFinish)

-----------------------------------------------------------------------------
(* InversionNumber::solve: inv on the numbers of the input.                *)

InvInit ==
    /\ source = <<>>
    /\ row = PreStart.row
    /\ col = PreStart.col
    /\ spaced = PreStart.spaced
    /\ comment_state = PreStart.comment_state
    /\ preprocessed = PreStart.preprocessed
    /\ pre_result = PreRunning
    /\ stage = "inv"
    /\ LexVarsAre(LexIdle)
    /\ ParseVarsAre(ParseNotCalled)
    /\ \E nums \in SeqsUpTo(0..MaxVal, MaxNums) : InvVarsAre(InvBegin(nums))

\* One pass through the body of the inner loop.
InvInner ==
    /\ inv_result.tag = "Running"
    /\ inv_i < Len(numbers) /\ inv_j < Len(numbers)
    /\ SetInv(InvInnerStep(InvState))
    /\ UNCHANGED <<source, pre_vars, pre_result, stage, lex_vars, parse_vars>>

\* The inner loop is over: the outer loop goes to its next i.
InvOuter ==
    /\ inv_result.tag = "Running"
    /\ inv_i < Len(numbers) /\ inv_j >= Len(numbers)
    /\ SetInv(InvOuterStep(InvState))
    /\ UNCHANGED <<source, pre_vars, pre_result, stage, lex_vars, parse_vars>>

\* The outer loop is over: inv returns ans.
InvReturn ==
    /\ inv_result.tag = "Running"
    /\ inv_i >= Len(numbers)
    /\ SetInv(InvReturnStep(InvState))
    /\ stage' = "done"
    /\ UNCHANGED <<source, pre_vars, pre_result, lex_vars, parse_vars>>

InvNext ==
    \/ InvInner
    \/ InvOuter
    \/ InvReturn

SpecInv == InvInit /\ [][InvNext]_vars

-----------------------------------------------------------------------------
(* Positions in a source text, counted from the text alone.                *)

Max(S) == CHOOSE x \in S : \A y \in S : y <= x

\* The index of the last newline before index i (0 when there is none).
LastNewlineBefore(src, i) == Max({0} \cup {j \in 1..(i - 1) : src[j] = "\n"})

RowOf(src, i) == 1 + Cardinality({j \in 1..(i - 1) : src[j] = "\n"})

ColOf(src, i) == i - LastNewlineBefore(src, i)

\* The index of the character of src at r:cl, 0 when there is none.
SrcIndex(src, r, cl) ==
    LET S == {i \in 1..Len(src) : RowOf(src, i) = r /\ ColOf(src, i) = cl}
    IN IF S = {} THEN 0 ELSE CHOOSE i \in S : TRUE

CharsOf(pp) == [k \in 1..Len(pp) |-> pp[k].c]

\* The source index of the k-th element of the returned sequence.
OutIndex(k) == SrcIndex(source, pre_result.out[k].row, pre_result.out[k].col)

Retained == {k \in 1..Len(pre_result.out) : pre_result.out[k].c # " "}

HasOpenerAt(src, i) ==
    i + 1 <= Len(src) /\ src[i] = "/" /\ src[i + 1] \in {"/", "*"}

HasOpener(src) == \E i \in 1..Len(src) : HasOpenerAt(src, i)

-----------------------------------------------------------------------------
(* Claims about preprocess, under Spec.                                    *)

\* C1: when preprocess succeeds, every non-space character of the output is
\* the source character at the row and column it carries (row = 1 + newlines
\* before it, col = 1 + characters since the preceding newline or the start),
\* and the non-space characters appear in source order.
C1_PositionsMatchSource ==
    pre_result.tag = "Ok" =>
        /\ \A k \in Retained :
              /\ OutIndex(k) # 0
              /\ source[OutIndex(k)] = pre_result.out[k].c
        /\ \A k, j \in Retained : k < j => OutIndex(k) < OutIndex(j)

\* C1 witness: a character retained on the second row, at a column past 1,
\* after an inline comment and a run of white space.
C1_Witness ==
    /\ pre_result.tag = "Ok"
    /\ HasOpenerAt(source, 1)
    /\ \E k \in Retained :
          /\ pre_result.out[k].row = 2
          /\ pre_result.out[k].col > 1
          /\ OutIndex(k) > k + 2

\* C2 (as claimed): end of input in state Block or LeavingBlock makes
\* preprocess fail with EofWhileBlockComment.
C2_EofInsideBlockFails ==
    (pre_result.tag # "Running" /\ comment_state.tag \in {"Block", "LeavingBlock"})
        => pre_result.tag = "EofWhileBlockComment"

\* C3: the position reported by EofWhileBlockComment is the position reached
\* at end of input: row = 1 + newlines in the input, col = 1 + characters
\* after the last newline.
C3_EofPositionIsEndOfInput ==
    pre_result.tag = "EofWhileBlockComment" =>
        /\ pre_result.row = RowOf(source, Len(source) + 1)
        /\ pre_result.col = ColOf(source, Len(source) + 1)

\* C3 witness: the error is reported on a later row, after an inline comment
\* and with a newline inside the unterminated block comment.
C3_Witness ==
    /\ pre_result.tag = "EofWhileBlockComment"
    /\ pre_result.row = 3
    /\ pre_result.col > 1
    /\ HasOpenerAt(source, 1) /\ source[2] = "/"

\* C4 (as claimed): when the input ends right after a buffered slash,
\* preprocess succeeds and the slash is the last character of the output,
\* with its own row and column.
C4_DanglingSlashEmitted ==
    (pre_result.tag # "Running" /\ comment_state.tag = "EnteringInlineOrBlock") =>
        /\ pre_result.tag = "Ok"
        /\ Len(pre_result.out) > 0
        /\ pre_result.out[Len(pre_result.out)] = comment_state.slash

\* C5: a successful output has no two adjacent space markers, no space
\* marker first or last; two retained characters that are neighbours in the
\* output are neighbours in the source, and two retained characters with
\* source text between them are separated by exactly one space marker.
C5_SpacesCollapsed ==
    pre_result.tag = "Ok" =>
        LET out == pre_result.out
            n == Len(out)
        IN /\ \A k \in 1..(n - 1) : ~(out[k].c = " " /\ out[k + 1].c = " ")
           /\ n > 0 => (out[1].c # " " /\ out[n].c # " ")
           /\ \A k \in 1..(n - 1) :
                 (out[k].c # " " /\ out[k + 1].c # " ") => OutIndex(k + 1) = OutIndex(k) + 1
           /\ \A k \in 2..(n - 1) :
                 out[k].c = " " => OutIndex(k + 1) > OutIndex(k - 1) + 1

\* C5 witness: one space marker stands for a run of at least three
\* characters of white space and comments between two retained characters.
C5_Witness ==
    /\ pre_result.tag = "Ok"
    /\ HasOpener(source)
    /\ \E k \in 2..(Len(pre_result.out) - 1) :
          /\ pre_result.out[k].c = " "
          /\ OutIndex(k + 1) > OutIndex(k - 1) + 3

\* C6 (as claimed): for an input with neither "//" nor "/*", preprocessing
\* the characters of the output again returns the same characters.
C6_Idempotent ==
    (pre_result.tag = "Ok" /\ ~HasOpener(source)) =>
        LET again == Preprocess(CharsOf(pre_result.out))
        IN /\ again.tag = "Ok"
           /\ CharsOf(again.out) = CharsOf(pre_result.out)

\* C7: a successful output never holds a '/' immediately followed by '*' or
\* by another '/'.
C7_NoOpenerInOutput ==
    pre_result.tag = "Ok" => ~HasOpener(CharsOf(pre_result.out))

\* C7 witness: a source with a comment opener whose output keeps a slash.
C7_Witness ==
    /\ pre_result.tag = "Ok"
    /\ HasOpener(source)
    /\ \E k \in 1..(Len(pre_result.out) - 1) : pre_result.out[k].c = "/"

\* C8: inside an inline comment every character but the newline leaves the
\* state and the output alone, and the newline only advances the row (col
\* back to 1, nothing emitted); inside a block comment nothing is emitted and
\* a slash opens no comment: the state leaves Block/LeavingBlock only through
\* '/' right after '*'.
C8_Step ==
    LET c == source'[Len(source')]
        in_block == comment_state.tag \in {"Block", "LeavingBlock"}
    IN source' # source =>
        /\ (comment_state.tag = "Inline" /\ c # "\n") =>
              /\ comment_state' = comment_state
              /\ preprocessed' = preprocessed
              /\ row' = row
        /\ (comment_state.tag = "Inline" /\ c = "\n") =>
              /\ comment_state'.tag = "None"
              /\ preprocessed' = preprocessed
              /\ row' = row + 1
              /\ col' = 1
        /\ in_block =>
              /\ preprocessed' = preprocessed
              /\ comment_state'.tag \in {"Block", "LeavingBlock", "None"}
              /\ comment_state'.tag = "None" =>
                    (comment_state.tag = "LeavingBlock" /\ c = "/")

\* The second and third sources of test_preprocess and the outputs the test
\* asserts: "//" inside a block comment, "*/" inside an inline comment.
C8_Tests ==
    /\ Preprocess(<<"i", "/", "*", " ", "/", "/", " ", "*", "/", "n", "/", "/", "\n",
                    "t", "\n">>)
          = PreOk(<< PositionedChar("i", 1, 1), PositionedChar(" ", 1, 2),
                     PositionedChar("n", 1, 10), PositionedChar(" ", 1, 11),
                     PositionedChar("t", 2, 1) >>)
    /\ Preprocess(<<"i", "/", "*", " ", "*", "/", "/", "/", " ", "*", "/", "n", "/", "/",
                    "\n", "t", "\n">>)
          = PreOk(<< PositionedChar("i", 1, 1), PositionedChar(" ", 1, 2),
                     PositionedChar("t", 2, 1) >>)

\* C8: comment openers are inert inside a comment of the other kind, at every
\* iteration of the loop (C8_Step) and on the sources of the test.
C8_CommentOpenersInert == [][C8_Step]_vars /\ []C8_Tests

\* C8 witness: "///*", a newline, then a character: the character is the
\* whole output, at row 2, column 1.
C8_Witness ==
    /\ pre_result.tag = "Ok"
    /\ source = <<"/", "/", "/", "*", "\n", "a">>
    /\ pre_result.out = <<PositionedChar("a", 2, 1)>>

-----------------------------------------------------------------------------
(* Claims about preprocess followed by lex, under SpecLex.                 *)

\* The source is x/*body*/y with x and y able to start an identifier.
IsCommentBetween(src) ==
    /\ Len(src) >= 6
    /\ src[1] \in IdentStart /\ src[2] = "/" /\ src[3] = "*"
    /\ src[Len(src)] \in IdentStart
    /\ FirstCloserAt(SubSeq(src, 4, Len(src) - 1), Len(src) - 5)

\* C9 (as claimed): preprocess then lex on x/*...*/y yields exactly two
\* Identifier tokens, x at 1:1 and y at the row and column y has in the
\* source.
C9_CommentSeparatesIdentifiers ==
    (stage = "done" /\ IsCommentBetween(source)) =>
        LET n == Len(source)
            x == <<source[1]>>
            y == <<source[n]>>
        IN /\ pre_result.tag = "Ok"
           /\ lex_result.tag = "Ok"
           /\ lex_result.tokens = << Token(Ident(x), 1, 1, x),
                                     Token(Ident(y), RowOf(source, n), ColOf(source, n), y) >>

\* The length of the longest prefix of text made of identifier characters.
RunLen(text) == Max({k \in 0..Len(text) : \A j \in 1..k : text[j] \in IdentChar})

\* The source has the spelling kw at index p + 1, at a token start, followed
\* by an identifier character.
KeywordRunAt(kw, p) ==
    /\ Len(source) > p + Len(kw)
    /\ p = 1 => source[1] = "+"
    /\ SubSeq(source, p + 1, p + Len(kw)) = kw
    /\ source[p + Len(kw) + 1] \in IdentChar

\* The token of the whole run of identifier characters that starts at p + 1.
RunToken(p) ==
    LET run == SubSeq(source, p + 1, p + RunLen(SubSeq(source, p + 1, Len(source))))
    IN Token(Ident(run), 1, p + 1, run)

\* C10: a keyword spelling immediately followed by a letter, digit or
\* underscore yields one Identifier token named by the whole run, never a
\* Keyword token followed by another token.
C10_KeywordMaximalMunch ==
    \A kw \in KwSpellings, p \in 0..1 :
        KeywordRunAt(kw, p) =>
            /\ Len(tokens) >= p + 1 => tokens[p + 1] = RunToken(p)
            /\ stage = "done" =>
                  /\ lex_result.tag = "Ok"
                  /\ Len(lex_result.tokens) >= p + 1
                  /\ lex_result.tokens[p + 1] = RunToken(p)

\* C10 witness: "intx" has been lexed to the single Identifier intx.
C10_Witness ==
    /\ stage = "done"
    /\ source = <<"i", "n", "t", "x">>
    /\ lex_result = LexOk(<< Token(Ident(source), 1, 1, source) >>)

-----------------------------------------------------------------------------
(* Claims about lex on its whole input, under SpecLex.                     *)

Range(s) == {s[k] : k \in 1..Len(s)}

\* The index in inp of the character an UnexpectedChar result carries; past
\* the end of inp when lex has not failed.
ErrIndex(inp, res) ==
    LET S == {k \in 1..Len(inp) : inp[k] = PositionedChar(res.c, res.row, res.col)}
    IN IF res.tag = "UnexpectedChar" /\ S # {}
       THEN CHOOSE k \in S : \A m \in S : k <= m
       ELSE Len(inp) + 1

\* The character at index k of inp is a '0' that starts a token: it does not
\* continue an identifier or a literal.
ZeroStartsToken(inp, k) ==
    /\ inp[k].c = "0"
    /\ k > 1 => inp[k - 1].c \notin IdentChar

\* C11: a '0' that starts a token and is immediately followed by a digit, a
\* letter or an underscore makes lex fail with UnexpectedChar carrying that
\* following character and its row and column; followed by anything else, or
\* by the end of input, it yields the IntegerLiteral "0" (unless lex failed
\* before reaching the '0').
C11_ZeroLiteral ==
    (stage = "done" /\ pre_result.tag = "Ok") =>
        LET inp == pre_result.out IN
        \A k \in 1..Len(inp) :
            (ZeroStartsToken(inp, k) /\ ErrIndex(inp, lex_result) > k) =>
                IF k < Len(inp) /\ inp[k + 1].c \in IdentChar
                THEN lex_result = UnexpectedChar(inp[k + 1].c, inp[k + 1].row, inp[k + 1].col)
                ELSE Token(LiteralInt(<<"0">>), inp[k].row, inp[k].col, <<"0">>)
                         \in Range(tokens)

\* C11 witness: "=07" has failed at the 7 that follows the 0.
C11_Witness ==
    /\ stage = "done"
    /\ source = <<"=", "0", "7">>
    /\ lex_result = UnexpectedChar("7", 1, 3)

\* The concatenation of the raw texts of a sequence of tokens.
RECURSIVE RawsOf(_)
RawsOf(toks) == IF toks = <<>> THEN <<>> ELSE Head(toks).raw \o RawsOf(Tail(toks))

NotSpace(c) == c # " "

\* C12: whenever lex succeeds, the raw texts of its tokens, concatenated in
\* order, are the characters of its input with the space markers removed.
C12_RawsReconstructInput ==
    (stage = "done" /\ lex_result.tag = "Ok") =>
        RawsOf(lex_result.tokens) = SelectSeq(CharsOf(pre_result.out), NotSpace)

\* C12 witness: "a ==" has been lexed to an identifier and a two-character
\* operator, with a space marker between them in the input of lex.
C12_Witness ==
    /\ stage = "done"
    /\ lex_result.tag = "Ok"
    /\ CharsOf(pre_result.out) = <<"a", " ", "=", "=">>
    /\ Len(lex_result.tokens) = 2
    /\ lex_result.tokens[2].raw = <<"=", "=">>

\* The index k of inp starts a maximal run of identifier characters that
\* begins with a letter or an underscore.
RunStartsAt(inp, k) ==
    /\ inp[k].c \in IdentStart
    /\ k > 1 => inp[k - 1].c \notin IdentChar

\* The maximal run of identifier characters of inp from index k.
RunAt(inp, k) ==
    LET text == CharsOf(inp)
    IN SubSeq(text, k, k + RunLen(SubSeq(text, k, Len(text))) - 1)

\* The keyword spelled by a run.
KeywordOf(run) ==
    CASE run = <<"i", "f">>                                -> Kw("If")
      [] run = <<"i", "n", "t">>                           -> Kw("Int")
      [] run = <<"f", "o", "r">>                           -> Kw("For")
      [] run = <<"w", "h", "i", "l", "e">>                 -> Kw("While")
      [] run = <<"d", "o">>                                -> Kw("Do")
      [] run = <<"r", "e", "t", "u", "r", "n">>            -> Kw("Return")
      [] run = <<"b", "r", "e", "a", "k">>                 -> Kw("Break")
      [] run = <<"c", "o", "n", "t", "i", "n", "u", "e">> -> Kw("Continue")

\* What the claim says a run is: the keyword it spells exactly, and
\* otherwise the identifier named by the whole run.
Classify(run) == IF run \in KwSpellings THEN KeywordOf(run) ELSE Ident(run)

\* C19: a maximal run of identifier characters that starts with a letter or
\* an underscore yields the Keyword token k exactly when the run is the
\* spelling of k, and otherwise one Identifier token named by the whole run;
\* proper prefixes and case variants of keywords are identifiers (unless lex
\* failed before reaching the run).
C19_KeywordClassification ==
    (stage = "done" /\ pre_result.tag = "Ok") =>
        LET inp == pre_result.out IN
        \A k \in 1..Len(inp) :
            (RunStartsAt(inp, k) /\ ErrIndex(inp, lex_result) > k) =>
                /\ Token(Classify(RunAt(inp, k)), inp[k].row, inp[k].col, RunAt(inp, k))
                       \in Range(tokens)
                /\ \A t \in Range(tokens) :
                       (t.row = inp[k].row /\ t.col = inp[k].col) =>
                           t.token = Classify(RunAt(inp, k))

\* C19 witness: "whil=" has been lexed to the identifier whil and an
\* operator.
C19_Witness ==
    /\ stage = "done"
    /\ source = <<"w", "h", "i", "l", "=">>
    /\ lex_result.tag = "Ok"
    /\ Len(lex_result.tokens) = 2
    /\ lex_result.tokens[1] = Token(Ident(<<"w", "h", "i", "l">>), 1, 1, <<"w", "h", "i", "l">>)

\* C20: the end of the input acts like a trailing space: lex returns the
\* same result on its input and on its input followed by one space marker,
\* and never returns UnexpectedEof.
C20_EofLikeSpace ==
    /\ lex_result.tag \in {"Running", "Ok", "UnexpectedChar"}
    /\ (stage = "done" /\ pre_result.tag = "Ok") =>
          /\ lex_result.tag \in {"Ok", "UnexpectedChar"}
          /\ \A r \in {0, 1}, cl \in {0, Len(pre_result.out) + 1} :
                Lex(pre_result.out \o <<PositionedChar(" ", r, cl)>>) = lex_result

\* C20 witness: lex has reached the end of its input in the last state of
\* the keyword while and has returned that keyword.
C20_Witness ==
    /\ stage = "done"
    /\ state = "IdentOrKwWhile5"
    /\ lex_result.tag = "Ok"
    /\ lex_result.tokens[Len(lex_result.tokens)].token = Kw("While")

-----------------------------------------------------------------------------
(* Claims about parse, under SpecParse.                                    *)

IsRuleRow(r) == r.rule.tag = "Rule"

\* The indices of the Rule(i) entries of a trace, in order.
RuleIndices(tr) ==
    LET rows == SelectSeq(tr, IsRuleRow)
    IN [k \in 1..Len(rows) |-> rows[k].rule.index]

\* C13: parse on the tokens of "a + b" returns Ok, and the Rule(i) entries of
\* its trace are, in order, 0, 3, 7, 5, 1, 3, 7, 5, 2.
C13_TestParseTrace ==
    (stage = "done" /\ source = TestParseSource) =>
        /\ parse_result = ParseOk
        /\ RuleIndices(trace) = <<0, 3, 7, 5, 1, 3, 7, 5, 2>>

\* C13 witness: parse has returned on the source of test_parse, with the
\* thirteen rows of nine rules, three matches and the final row.
C13_Witness ==
    /\ stage = "done"
    /\ source = TestParseSource
    /\ Len(lex_result.tokens) = 3
    /\ Len(trace) = 13
    /\ trace[13] = ParseTraceRow(<<>>, <<>>, RowNone)

\* The token has no Terminal: it is a keyword, a symbol other than ( and ),
\* or an operator other than + and *.
HasNoTerminal(tok) ==
    \/ tok.token.kind = "Kw"
    \/ tok.token.kind = "Sym" /\ tok.token.variant \notin {"LeftParen", "RightParen"}
    \/ tok.token.kind = "Op" /\ tok.token.variant \notin {"Add", "Mul"}

\* C14: on a token stream that holds a token with no Terminal, wherever it
\* is and whatever precedes it, parse returns InvalidToken (carrying such a
\* token) with an empty trace.
C14_InvalidTokenFirst ==
    (stage = "done" /\ lex_result.tag = "Ok"
                    /\ \E k \in 1..Len(lex_result.tokens) : HasNoTerminal(lex_result.tokens[k])) =>
        /\ parse_result.tag = "InvalidToken"
        /\ HasNoTerminal(parse_result.token)
        /\ parse_result.token \in Range(lex_result.tokens)
        /\ trace = <<>>

\* C14 witness: ") + if" starts with a syntax error and ends with a keyword;
\* parse has returned InvalidToken with an empty trace.
C14_Witness ==
    /\ stage = "done"
    /\ source = <<")", " ", "+", " ", "i", "f">>
    /\ parse_result.tag = "InvalidToken"
    /\ trace = <<>>

\* C15: the table has no entry for (E, #), so parse on the empty token
\* stream returns UnexpectedEos with a trace of exactly one row: the Err
\* marker, the stack [E] and an empty remaining input.
C15_EmptyStream ==
    /\ TableGet(StartSymbol, "Eos") = NoIndex
    /\ (stage = "done" /\ lex_result = LexOk(<<>>)) =>
          /\ parse_result = UnexpectedEos
          /\ trace = << ParseTraceRow(<<TermNonterminal("E")>>, <<>>, RowErr) >>

\* C15 witness: parse has returned on the empty source.
C15_Witness ==
    /\ stage = "done"
    /\ source = <<>>
    /\ lex_result = LexOk(<<>>)
    /\ parse_result.tag = "UnexpectedEos"
    /\ Len(trace) = 1

\* The leftmost derivations of the terminal string w from the sentential
\* form alpha by the rules of the grammar, each as its sequence of rule
\* indices.
RECURSIVE Derivations(_, _)
Derivations(alpha, w) ==
    IF alpha = <<>>
    THEN IF w = <<>> THEN {<<>>} ELSE {}
    ELSE IF Head(alpha).term = "Terminal"
    THEN IF w # <<>> /\ Head(w) = Head(alpha).v
         THEN Derivations(Tail(alpha), Tail(w))
         ELSE {}
    ELSE UNION { {<<k>> \o d : d \in Derivations(RuleAt(k).rhs \o Tail(alpha), w)} :
                    k \in {m \in 0..(Len(Rules) - 1) : RuleAt(m).lhs = Head(alpha).v} }

\* The terminals of the tokens lex returned.
TerminalsOf(toks) == [k \in 1..Len(toks) |-> TryFromToken(toks[k])]

\* C17: on a stream of Ident, LiteralInt, +, *, ( and ) tokens parse returns
\* Ok exactly when the stream is derivable from E by the nine rules, and on
\* Ok the Rule(i) entries of the trace are the leftmost derivation.
C17_AcceptsExactlyGrammar ==
    (stage = "done" /\ lex_result.tag = "Ok"
                    /\ \A k \in 1..Len(lex_result.tokens) : ~HasNoTerminal(lex_result.tokens[k])) =>
        LET ds == Derivations(<<TermNonterminal("E")>>, TerminalsOf(lex_result.tokens))
        IN /\ parse_result.tag = "Ok" <=> ds # {}
           /\ parse_result.tag = "Ok" => ds = {RuleIndices(trace)}

\* C17 witness: "(a+7)*b" has been accepted.
C17_Witness ==
    /\ stage = "done"
    /\ source = <<"(", "a", "+", "7", ")", "*", "b">>
    /\ parse_result.tag = "Ok"
    /\ Len(RuleIndices(trace)) = 16

\* The nonterminals that derive the empty string, from the set S of those
\* already known to.
RECURSIVE NullableFrom(_)
NullableFrom(S) ==
    LET next == S \cup {r.lhs : r \in {q \in Range(Rules) :
                            \A x \in Range(q.rhs) : x.term = "Nonterminal" /\ x.v \in S}}
    IN IF next = S THEN S ELSE NullableFrom(next)

Nullable == NullableFrom({})

SeqNullable(alpha) == \A x \in Range(alpha) : x.term = "Nonterminal" /\ x.v \in Nullable

\* FIRST of a sentential form, given FIRST of the nonterminals as fst.
RECURSIVE FirstOfSeq(_, _)
FirstOfSeq(fst, alpha) ==
    IF alpha = <<>> THEN {}
    ELSE IF Head(alpha).term = "Terminal" THEN {Head(alpha).v}
    ELSE fst[Head(alpha).v]
             \cup (IF Head(alpha).v \in Nullable THEN FirstOfSeq(fst, Tail(alpha)) ELSE {})

RECURSIVE FirstFrom(_)
FirstFrom(fst) ==
    LET next == [n \in Nonterminals |->
                    fst[n] \cup UNION {FirstOfSeq(fst, r.rhs) :
                                          r \in {q \in Range(Rules) : q.lhs = n}}]
    IN IF next = fst THEN fst ELSE FirstFrom(next)

\* FIRST of the nonterminals: the least solution of the usual equations.
First == FirstFrom([n \in Nonterminals |-> {}])

\* What rule r adds to FOLLOW(n), given FOLLOW so far as fol: for each
\* occurrence of n in its right-hand side, FIRST of what comes after, and
\* FOLLOW of its left-hand side when what comes after can be empty.
FollowOfRule(fol, r, n) ==
    UNION { LET rest == SubSeq(r.rhs, k + 1, Len(r.rhs))
            IN FirstOfSeq(First, rest) \cup (IF SeqNullable(rest) THEN fol[r.lhs] ELSE {}) :
            k \in {m \in 1..Len(r.rhs) : r.rhs[m] = TermNonterminal(n)} }

RECURSIVE FollowFrom(_)
FollowFrom(fol) ==
    LET next == [n \in Nonterminals |->
                    fol[n] \cup (IF n = StartSymbol THEN {"Eos"} ELSE {})
                           \cup UNION {FollowOfRule(fol, r, n) : r \in Range(Rules)}]
    IN IF next = fol THEN fol ELSE FollowFrom(next)

\* FOLLOW of the nonterminals, with # after the start symbol.
Follow == FollowFrom([n \in Nonterminals |-> {}])

\* The rules an LL(1) table built from FIRST and FOLLOW puts in cell (n, t).
Candidates(n, t) ==
    {k \in 0..(Len(Rules) - 1) :
        /\ RuleAt(k).lhs = n
        /\ \/ t \in FirstOfSeq(First, RuleAt(k).rhs)
           \/ RuleAt(k).rhs = <<>> /\ t \in Follow[n]}

\* The table of the code is the LL(1) table of its rules: cell (n, t) holds
\* rule k exactly when k is a candidate, and no cell has two candidates.
TableIsLL1 ==
    /\ \A n \in Nonterminals, t \in Terminals :
          /\ Cardinality(Candidates(n, t)) <= 1
          /\ Cardinality({e \in Table : e[1] = n /\ e[2] = t}) <= 1
          /\ \A k \in 0..(Len(Rules) - 1) : <<n, t, k>> \in Table <=> k \in Candidates(n, t)
    /\ \A e \in Table : e[1] \in Nonterminals /\ e[2] \in Terminals

\* C18: the table of the code is the LL(1) table of its rules: cell (N, t)
\* holds rule i exactly when i is a rule of N and t is in FIRST of its
\* right-hand side, or the right-hand side is empty and t is in FOLLOW(N);
\* no cell has two candidates, and the assert_eq! of parse on the left-hand
\* side of the rule looked up never fails. (The table does not change: it is
\* compared in the states of the run on the empty source.)
C18_TableIsLL1 ==
    /\ source = <<>> => TableIsLL1
    /\ parse_result.tag # "Panic"

\* C18 witness: parse has accepted a stream on which it looked up and
\* applied every one of the nine rules.
C18_Witness ==
    /\ stage = "done"
    /\ parse_result.tag = "Ok"
    /\ Range(RuleIndices(trace)) = 0..8

-----------------------------------------------------------------------------
(* Claims about inv, under SpecInv.                                        *)

\* The pairs of positions of nums that are out of order.
Inversions(nums) ==
    {p \in (1..Len(nums)) \X (1..Len(nums)) : p[1] < p[2] /\ nums[p[1]] > nums[p[2]]}

NonDecreasing(nums) == \A k \in 1..(Len(nums) - 1) : nums[k] <= nums[k + 1]

StrictlyDecreasing(nums) == \A k \in 1..(Len(nums) - 1) : nums[k] > nums[k + 1]

\* C16: inv returns the number of pairs i < j with numbers[i] > numbers[j],
\* repeated values included: 0 for a non-decreasing slice and n(n-1)/2 for a
\* strictly decreasing slice of length n.
C16_InvCountsInversions ==
    inv_result.tag = "Returned" =>
        /\ inv_result.value = Cardinality(Inversions(numbers))
        /\ NonDecreasing(numbers) => inv_result.value = 0
        /\ StrictlyDecreasing(numbers) =>
              inv_result.value = (Len(numbers) * (Len(numbers) - 1)) \div 2

\* C16 witness: inv has returned 5 on 3 1 1 0, a slice with a repeated value.
C16_Witness ==
    /\ numbers = <<3, 1, 1, 0>>
    /\ inv_result = InvReturned(5)

-----------------------------------------------------------------------------
(* Further claims about lex, under SpecLex.                                *)

OpStartChars == {"=", ">", "<", "!"}

\* The character at index k of inp is one of = > < ! at a token start: it is
\* not the '=' that completes a two-character operator begun just before.
RECURSIVE OpStartsAt(_, _)
OpStartsAt(inp, k) ==
    /\ inp[k].c \in OpStartChars
    /\ ~(k > 1 /\ inp[k].c = "=" /\ OpStartsAt(inp, k - 1))

\* The operators the claim names, by their first character.
OpWithEq(c) ==
    CASE c = "=" -> Op("Eq") [] c = ">" -> Op("Ge") [] c = "<" -> Op("Le") [] c = "!" -> Op("Ne")

OpAlone(c) ==
    CASE c = "=" -> Op("Assign") [] c = ">" -> Op("Gt") [] c = "<" -> Op("Lt") [] c = "!" -> Op("Not")

\* The character at index k of inp has been taken as the start of a token:
\* a token pushed, or the token under way when lex failed, starts at it, or
\* lex failed on it.
LexedAsTokenStart(inp, k) ==
    \/ \E t \in Range(tokens) : t.row = inp[k].row /\ t.col = inp[k].col
                                  /\ Head(t.raw) = inp[k].c
    \/ /\ lex_result.tag = "UnexpectedChar"
       /\ \/ ErrIndex(inp, lex_result) = k
          \/ current_token_row = inp[k].row /\ current_token_col = inp[k].col
                /\ Head(current_token_raw) = inp[k].c

\* C21: for each of = > < ! at a token start, when the next character is
\* '=' lex emits one Eq, Ge, Le or Ne whose raw is both characters;
\* otherwise it emits Assign, Gt, Lt or Not with a raw of one character and
\* the following character, unless a space, is lexed as the start of the
\* next token (unless lex failed before reaching the operator).
C21_OperatorLookahead ==
    (stage = "done" /\ pre_result.tag = "Ok") =>
        LET inp == pre_result.out IN
        \A k \in 1..Len(inp) :
            (OpStartsAt(inp, k) /\ ErrIndex(inp, lex_result) > k) =>
                IF k < Len(inp) /\ inp[k + 1].c = "="
                THEN Token(OpWithEq(inp[k].c), inp[k].row, inp[k].col, <<inp[k].c, "=">>)
                         \in Range(tokens)
                ELSE /\ Token(OpAlone(inp[k].c), inp[k].row, inp[k].col, <<inp[k].c>>)
                           \in Range(tokens)
                     /\ (k < Len(inp) /\ inp[k + 1].c # " ") => LexedAsTokenStart(inp, k + 1)

\* C21 witness: "===" has been lexed to Eq then Assign.
C21_Witness ==
    /\ stage = "done"
    /\ source = <<"=", "=", "=">>
    /\ lex_result = LexOk(<< Token(Op("Eq"), 1, 1, <<"=", "=">>),
                              Token(Op("Assign"), 1, 3, <<"=">>) >>)

\* The characters the claim lets a token start with, and the space.
StartChars ==
    {" "} \cup IdentChar \cup {"(", ")", "[", "]", "{", "}", ",", ";",
                                "+", "-", "*", "/", "%", "=", ">", "<", "!"}

\* The character at index k of inp can start no token.
StartsNoToken(inp, k) == inp[k].c \notin StartChars

\* The character at index k of inp is a letter or an underscore right after
\* a run of digits that is a literal (the run does not continue an
\* identifier).
AfterDigitRun(inp, k) ==
    /\ inp[k].c \in IdentStart
    /\ \E j \in 1..(k - 1) :
          /\ \A m \in j..(k - 1) : inp[m].c \in Digit
          /\ j > 1 => inp[j - 1].c \notin IdentChar

\* The character at index k of inp is a digit right after a '0' that starts
\* a token.
AfterLeadingZero(inp, k) ==
    /\ k > 1
    /\ inp[k].c \in Digit
    /\ ZeroStartsToken(inp, k - 1)

Min(S) == CHOOSE x \in S : \A y \in S : x <= y

\* lex fails exactly when S, the indices of the offending characters of its
\* input, is not empty, and then with UnexpectedChar carrying the first of
\* them and its row and column, and no tokens.
FailsExactlyOn(inp, S) ==
    IF S = {}
    THEN lex_result.tag = "Ok"
    ELSE lex_result = UnexpectedChar(inp[Min(S)].c, inp[Min(S)].row, inp[Min(S)].col)

\* C22 (as claimed): lex fails with UnexpectedChar, carrying the offending
\* character and its own row and column, in exactly two cases: a character
\* that can start no token, and a letter or underscore right after a digit
\* run; it fails at the first such character.
C22_UnexpectedCharCases ==
    (stage = "done" /\ pre_result.tag = "Ok") =>
        LET inp == pre_result.out
        IN FailsExactlyOn(inp, {k \in 1..Len(inp) :
                                   StartsNoToken(inp, k) \/ AfterDigitRun(inp, k)})

\* C22 (amended): there is a third case, a digit right after a '0' that
\* starts a token; with it, lex fails in exactly these cases, at the first
\* such character, carrying that character and its own row and column.
C22_UnexpectedCharCasesAmended ==
    (stage = "done" /\ pre_result.tag = "Ok") =>
        LET inp == pre_result.out
        IN FailsExactlyOn(inp, {k \in 1..Len(inp) :
                                   \/ StartsNoToken(inp, k)
                                   \/ AfterDigitRun(inp, k)
                                   \/ AfterLeadingZero(inp, k)})

\* C22 witness: "=77a" has failed at the letter after the digit run, whose
\* token starts one column after the start of the input.
C22_Witness ==
    /\ stage = "done"
    /\ source = <<"=", "7", "7", "a">>
    /\ current_token_col = 2
    /\ lex_result = UnexpectedChar("a", 1, 4)

-----------------------------------------------------------------------------
(* Further claims about parse, under SpecParse.                            *)

\* The remaining input of a trace row in the order the view shows it:
\* t.input.into_iter().rev().
RemainingInput(r) == Rev(r.input)

\* C23: whenever parse returns Ok, the last row of the trace has an empty
\* stack, an empty remaining input and the marker None, the first row has
\* the stack [E] and the whole token stream as remaining input, and no row
\* carries the marker Err.
C23_OkTraceShape ==
    (stage = "done" /\ parse_result.tag = "Ok") =>
        /\ trace # <<>>
        /\ Last(trace) = ParseTraceRow(<<>>, <<>>, RowNone)
        /\ trace[1].stack = <<TermNonterminal("E")>>
        /\ RemainingInput(trace[1]) = lex_result.tokens
        /\ \A k \in 1..Len(trace) : trace[k].rule # RowErr

\* C23 witness: parse has returned Ok on a stream of five tokens.
C23_Witness ==
    /\ stage = "done"
    /\ parse_result.tag = "Ok"
    /\ Len(lex_result.tokens) = 5
    /\ Len(RemainingInput(trace[1])) = 5
    /\ trace[1].rule = RowRule(0)

\* The errors parse returns from inside its loop.
LoopErrors == {"UnexpectedToken", "UnexpectedEos", "ExtraToken"}

\* A step of the loop appends exactly one row, holding the stack and the
\* remaining input as they are before the step: an Err row when the step
\* returns an error, and a row without Err when the step completes.
C24_Step ==
    stage = "parse_loop" =>
        /\ Len(trace') = Len(trace) + 1
        /\ SubSeq(trace', 1, Len(trace)) = trace
        /\ Last(trace').stack = stack
        /\ Last(trace').input = InputTokens(parse_input)
        /\ Last(trace').rule = RowErr <=> parse_result'.tag \in LoopErrors

\* When parse has returned an error from its loop, the trace is not empty
\* and its only Err row is the last.
C24_Returned ==
    parse_result.tag \in LoopErrors =>
        /\ stage = "done"
        /\ trace # <<>>
        /\ Last(trace).rule = RowErr
        /\ \A k \in 1..(Len(trace) - 1) : trace[k].rule # RowErr

\* C24: whenever parse returns UnexpectedToken, UnexpectedEos or ExtraToken
\* the trace is not empty, its last row carries the marker Err with the
\* stack and the remaining input as they were at the failing step, every
\* earlier row is a row without Err recorded by a completed step, and no row
\* follows the Err row.
C24_ErrorTraceShape == [][C24_Step]_vars /\ []C24_Returned

\* C24 witness: parse has returned ExtraToken with two tokens left, both in
\* the Err row.
C24_Witness ==
    /\ stage = "done"
    /\ parse_result.tag = "ExtraToken"
    /\ Last(trace) = ParseTraceRow(<<>>, InputTokens(parse_input) \o <<parse_result.token>>, RowErr)
    /\ Len(Last(trace).input) = 2

\* The indices of the tokens of the stream that have no Terminal.
Offending(toks) == {k \in 1..Len(toks) : HasNoTerminal(toks[k])}

\* C25 (as claimed): when the token stream holds tokens outside the
\* alphabet of the grammar, the InvalidToken error carries the earliest of
\* them in source order.
C25_InvalidTokenIsEarliest ==
    (stage = "done" /\ parse_result.tag = "InvalidToken") =>
        parse_result.token = lex_result.tokens[Min(Offending(lex_result.tokens))]

\* The number of Rule rows at the end of a trace: the expansions made since
\* the last token was consumed.
TrailingRules(tr) ==
    Max({k \in 0..Len(tr) : \A m \in (Len(tr) - k + 1)..Len(tr) : IsRuleRow(tr[m])})

\* An iteration after which the loop goes on either consumes one token of
\* the input or expands the nonterminal on top of the stack.
C26_Step ==
    (stage = "parse_loop" /\ stage' = "parse_loop") =>
        \/ /\ parse_input' = Pop(parse_input)
           /\ Last(trace').rule = RowNone
        \/ /\ parse_input' = parse_input
           /\ Last(stack).term = "Nonterminal"
           /\ IsRuleRow(Last(trace'))

\* No more than three expansions (E, T, F) are made in a row.
C26_Bounded == TrailingRules(trace) <= 3

\* C26: parse terminates on every token stream: every iteration consumes a
\* token or expands a nonterminal, the expansions in a row are bounded, and
\* every call of parse reaches its return, with Ok or with an error.
C26_ParseTerminates ==
    /\ [][C26_Step]_vars
    /\ []C26_Bounded
    /\ (stage = "parse") ~> (stage = "done" /\ parse_result.tag \notin {"Idle", "Running"})

\* C26 witness: parse has returned on "(a+7)*b" after twenty-four rows, the
\* first three of them expansions in a row.
C26_Witness ==
    /\ stage = "done"
    /\ parse_result.tag = "Ok"
    /\ Len(trace) = 24
    /\ TrailingRules(SubSeq(trace, 1, 3)) = 3

\* The stages follow one another in the order preprocess and lex, parse, and
\* each call changes only its own results.
C27_Step ==
    /\ stage = "preprocess" => stage' \in {"parse", "done"} /\ UNCHANGED parse_vars
    /\ stage = "parse" => stage' \in {"parse_loop", "done"}
    /\ stage = "parse_loop" => stage' \in {"parse_loop", "done"}
    /\ stage \in {"parse", "parse_loop"} => UNCHANGED <<pre_vars, pre_result, lex_vars>>
    /\ stage # "done"

\* A failure of preprocess leaves lex and parse not run, a failure of lex
\* leaves parse not run, lex has run only after preprocess succeeded and
\* parse only after lex succeeded; what solve returns on a failure of parse
\* other than InvalidToken holds the trace up to the failing step.
C27_State ==
    /\ pre_result.tag \notin {"Running", "Ok"} =>
          /\ LexState = LexIdle
          /\ ParseState = ParseNotCalled
          /\ stage = "done"
    /\ lex_result.tag = "UnexpectedChar" =>
          /\ ParseState = ParseNotCalled
          /\ stage = "done"
    /\ LexState # LexIdle => pre_result.tag = "Ok"
    /\ ParseState # ParseNotCalled => pre_result.tag = "Ok" /\ lex_result.tag = "Ok"
    /\ stage = "done" =>
          LET view == SolveView(pre_result, lex_result, parse_result, trace)
          IN /\ pre_result.tag # "Ok" => view.title = "preprocess" /\ view.error = pre_result.tag
             /\ lex_result.tag = "UnexpectedChar" =>
                   view.title = "lex" /\ view.error = lex_result.tag
             /\ parse_result.tag \in LoopErrors =>
                   /\ view.title = "parse" /\ view.error = parse_result.tag
                   /\ view.with_trace /\ view.trace = trace /\ Last(trace).rule = RowErr

\* C27: in the pipeline of solve a failure of preprocess is reported without
\* lex or parse being run, a failure of lex without parse being run, and a
\* failure of parse other than InvalidToken together with the trace up to
\* the failing step; the stages run in the order preprocess, lex, parse.
C27_PipelineOrder == [][C27_Step]_vars /\ []C27_State

\* C27 witness: solve has returned on "/*", where preprocess fails, and on
\* nothing else has been run.
C27_Witness ==
    /\ stage = "done"
    /\ source = <<"/", "*">>
    /\ pre_result.tag \notin {"Running", "Ok"}
    /\ SolveView(pre_result, lex_result, parse_result, trace).title = "preprocess"
    /\ LexState = LexIdle

\* Where the first k characters of src leave a reader of comments that ends
\* a block comment at the first "*/" after its opener: outside of comments
\* ("None"), after a slash ("Slash"), in an inline comment ("Inline"), in a
\* block comment ("Block"), or in a block comment after a star of its body
\* ("Star").
RECURSIVE CommentMode(_, _)
CommentMode(src, k) ==
    IF k = 0 THEN "None"
    ELSE LET m == CommentMode(src, k - 1)
             c == src[k]
         IN CASE m = "None" -> IF c = "/" THEN "Slash" ELSE "None"
              [] m = "Slash" -> IF c = "/" THEN "Inline"
                                ELSE IF c = "*" THEN "Block" ELSE "None"
              [] m = "Inline" -> IF c = "\n" THEN "None" ELSE "Inline"
              [] m = "Block" -> IF c = "*" THEN "Star" ELSE "Block"
              [] OTHER -> IF c = "/" THEN "None"
                          ELSE IF c = "*" THEN "Star" ELSE "Block"

\* C28 (as claimed): a block comment ends at the first "*/" that follows its
\* opener, whatever its body: preprocess is inside a block comment exactly
\* when the source read so far has an opener with no "*/" after it, and it
\* reports an unterminated comment only for such a source.
C28_BlockEndsAtFirstCloser ==
    LET inside == CommentMode(source, Len(source)) \in {"Block", "Star"}
    IN /\ pre_result.tag = "Running" =>
             (comment_state.tag \in {"Block", "LeavingBlock"} <=> inside)
       /\ pre_result.tag = "EofWhileBlockComment" => inside

\* The loop is about to take a step with a Terminal on top of the stack.
TerminalOnTop ==
    /\ stage = "parse_loop"
    /\ stack # <<>>
    /\ Last(stack).term = "Terminal"

\* C29: with the grammar and the table of the program, a Terminal on top of
\* the stack while input remains equals the terminal of the next token; so
\* every UnexpectedToken is returned on a Nonterminal for which the table
\* has no rule, and a failing step with a Terminal on top returns
\* UnexpectedEos on an empty input.
C29_TerminalOnTopMatches ==
    /\ (TerminalOnTop /\ parse_input # <<>>) =>
           Last(stack).v = Last(parse_input).terminal
    /\ parse_result.tag = "UnexpectedToken" =>
           LET r == Last(trace)
           IN /\ r.rule = RowErr
              /\ r.input # <<>>
              /\ Last(r.stack).term = "Nonterminal"
              /\ TableGet(Last(r.stack).v, TryFromToken(Last(r.input))) = NoIndex
              /\ parse_result.token = Last(r.input)
    /\ (/\ parse_result.tag \in LoopErrors
        /\ Last(trace).stack # <<>>
        /\ Last(Last(trace).stack).term = "Terminal") =>
           /\ parse_result.tag = "UnexpectedEos"
           /\ Last(trace).input = <<>>

\* C29 witness: on "( a ) * 7" the right parenthesis is on top of the stack
\* while "* 7" remains after it in the input.
C29_Witness ==
    /\ TerminalOnTop
    /\ Last(stack) = TermTerminal("Sym(RightParen)")
    /\ Len(parse_input) = 3
    /\ Last(parse_input).terminal = "Sym(RightParen)"
    /\ Len(lex_result.tokens) = 5

\* C29 second case reached: a right parenthesis left on the stack at the end
\* of the input has failed with UnexpectedEos.
C29_EosReached ==
    /\ parse_result.tag = "UnexpectedEos"
    /\ Last(Last(trace).stack) = TermTerminal("Sym(RightParen)")

\* The first n tokens are a complete expression: derivable from E.
CompleteExpression(toks, n) ==
    Derivations(<<TermNonterminal("E")>>, TerminalsOf(SubSeq(toks, 1, n))) # {}

\* How many of the first n tokens have the terminal t.
CountOf(toks, n, t) == Cardinality({k \in 1..n : TryFromToken(toks[k]) = t})

\* The terminals that start an operand.
OperandStart == {"Ident", "LiteralInt", "Sym(LeftParen)"}

\* C30: parse returns ExtraToken only with the stack emptied by a complete
\* expression and a right parenthesis next that closes no open parenthesis,
\* and the error carries that first unconsumed token; an Ident, a LiteralInt
\* or a left parenthesis after a complete expression yields UnexpectedToken
\* for that token, on a stack that is not empty.
C30_ExtraTokenOnlyRightParen ==
    (stage = "done" /\ parse_result.tag \in LoopErrors \cup {"Ok"}) =>
        LET toks == lex_result.tokens
            r == Last(trace)
            n == Len(toks) - Len(r.input)
        IN /\ parse_result.tag = "ExtraToken" =>
                 /\ r.stack = <<>>
                 /\ n >= 1 /\ n < Len(toks)
                 /\ RemainingInput(r) = SubSeq(toks, n + 1, Len(toks))
                 /\ parse_result.token = toks[n + 1]
                 /\ TryFromToken(toks[n + 1]) = "Sym(RightParen)"
                 /\ CompleteExpression(toks, n)
                 /\ CountOf(toks, n, "Sym(LeftParen)") = CountOf(toks, n, "Sym(RightParen)")
           /\ \A m \in 1..(Len(toks) - 1) :
                 (CompleteExpression(toks, m) /\ TryFromToken(toks[m + 1]) \in OperandStart) =>
                     /\ parse_result = UnexpectedToken(toks[m + 1])
                     /\ r.stack # <<>>
                     /\ RemainingInput(r) = SubSeq(toks, m + 1, Len(toks))

\* C30 witness: on "a + 7 ) a" parse has returned ExtraToken carrying the
\* right parenthesis at 1:7, with one more token after it.
C30_Witness ==
    /\ stage = "done"
    /\ parse_result.tag = "ExtraToken"
    /\ Len(lex_result.tokens) = 5
    /\ parse_result.token = lex_result.tokens[4]
    /\ parse_result.token.col = 7
    /\ Len(Last(trace).input) = 2

\* C30 second case reached: on "( a ) 7" the literal after the complete
\* expression has been refused with UnexpectedToken.
C30_OperandReached ==
    /\ stage = "done"
    /\ Len(lex_result.tokens) = 4
    /\ CompleteExpression(lex_result.tokens, 3)
    /\ parse_result = UnexpectedToken(lex_result.tokens[4])
    /\ TryFromToken(lex_result.tokens[4]) = "LiteralInt"

====
